---- MODULE Spec2Model ----
(***************************************************************************)
(* Document indexing and retrieval pipeline of ai-advent:                  *)
(*   - EmbeddingService  (generateEmbedding / generateEmbeddingsBatch)     *)
(*   - IndexStorageService + IndexingController (SQLite vector store)      *)
(*   - ChunkingService   (recursive / section / fixed strategies)          *)
(* Each component has its own specification (SpecEmbed, SpecStore,         *)
(* SpecChunk); the variables of the other components stay parked.          *)
(***************************************************************************)
EXTENDS Integers, Sequences, FiniteSets, TLC

(***************************************************************************)
(* Generic helpers                                                         *)
(***************************************************************************)
Min(a, b) == IF a <= b THEN a ELSE b

Max(a, b) == IF a >= b THEN a ELSE b

RECURSIVE Pow2(_)
Pow2(n) == IF n <= 0 THEN 1 ELSE 2 * Pow2(n - 1)

Range(s) == {s[k] : k \in 1..Len(s)}

(***************************************************************************)
(* ======================  EmbeddingService  ============================  *)
(***************************************************************************)
\* bound: largest number of texts handed to one generateEmbeddingsBatch call
MaxTexts == 3

\* indexing.ollama.maxRetries
maxRetries == 3

\* indexing.ollama.batchSize (configured small so that several groups occur)
batchSize == 2

\* vectors the provider may answer with
Vectors == {<<1>>, <<2>>}

\* ways one attempt can fail: 'fetch failed' (OllamaConnectionException), or
\* a plain Error (AbortError timeout, non-2xx status, malformed body)
FailureKinds == {"connection", "error"}

VARIABLES
    texts,      \* number of input texts of the running batch call
    i,          \* loop variable of generateEmbeddingsBatch (0-based offset)
    results,    \* results array of generateEmbeddingsBatch
    bPc,        \* position of generateEmbeddingsBatch
    ePc,        \* per text: position of its generateEmbedding call
    attempt,    \* per text: loop variable of generateEmbedding
    nreq,       \* per text: number of makeEmbeddingRequest calls issued
    slept,      \* per text: sequence of delays (ms) passed to sleep()
    got,        \* per text: vector returned by generateEmbedding
    lastError,  \* per text: lastError of generateEmbedding
    raised,     \* per text: exception generateEmbedding ended with
    caught      \* per text: what each failed attempt threw, in order

embedVars == <<texts, i, results, bPc, ePc, attempt, nreq, slept, got,
               lastError, raised, caught>>

TextIds == 1..MaxTexts

\* a loop that starts every remaining text at once
BatchEveryRemainingText(off) == {t \in TextIds : off < t /\ t <= texts}

\* texts.slice(i, i + batchSize), as 1-based indices
Batch(off) == {t \in TextIds : off < t /\ t <= Min(off + batchSize, texts)}

\* Math.pow(2, attempt - 1) * 1000
BackoffDelay(a) == Pow2(a - 1) * 1000

\* lines 140-148 with failed results silently dropped (misaligned output)
CollectBatchDropFailed(off, pcs, vecs) ==
    LET RECURSIVE Go(_)
        Go(t) == IF t > Min(off + batchSize, texts) THEN <<>>
                 ELSE (IF pcs[t] = "ok" THEN <<vecs[t]>> ELSE <<>>) \o Go(t + 1)
    IN Go(off + 1)

\* lines 137-148: batchResults in input order, null replaced by []
CollectBatch(off, pcs, vecs) ==
    LET RECURSIVE Go(_)
        Go(t) == IF t > Min(off + batchSize, texts) THEN <<>>
                 ELSE <<IF pcs[t] = "ok" THEN vecs[t] ELSE <<>> >> \o Go(t + 1)
    IN Go(off + 1)

\* guard of the retry branch with an off-by-one (backs off once more after the
\* last attempt has failed)
MayRetryOffByOne(a) == a <= maxRetries

\* line 84: attempt < this.maxRetries
MayRetry(a) == a < maxRetries

EmbedIdle ==
    /\ i = 0 /\ results = <<>> /\ bPc = "idle"
    /\ ePc = [t \in TextIds |-> "idle"]
    /\ attempt = [t \in TextIds |-> 0]
    /\ nreq = [t \in TextIds |-> 0]
    /\ slept = [t \in TextIds |-> <<>>]
    /\ got = [t \in TextIds |-> <<>>]
    /\ lastError = [t \in TextIds |-> "none"]
    /\ raised = [t \in TextIds |-> "none"]
    /\ caught = [t \in TextIds |-> <<>>]

\* generateEmbeddingsBatch entered with an input list of 0..MaxTexts texts
InitEmbed ==
    /\ texts \in 0..MaxTexts
    /\ EmbedIdle
\* lines 108-110 and 119-135: the for loop takes the next group and calls
\* generateEmbedding on each of its texts; every call runs to its first await
\* (the fetch of attempt 1)
BatchStartGroup ==
    /\ bPc \in {"idle", "loop"}
    /\ i < texts
    /\ bPc' = "await"
    /\ ePc' = [t \in TextIds |-> IF t \in Batch(i) THEN "request" ELSE ePc[t]]
    /\ attempt' = [t \in TextIds |-> IF t \in Batch(i) THEN 1 ELSE attempt[t]]
    /\ nreq' = [t \in TextIds |-> IF t \in Batch(i) THEN 1 ELSE nreq[t]]
    /\ UNCHANGED <<texts, i, results, slept, got, lastError, raised, caught>>

\* lines 70-79: the request of text t answers with a well-formed embedding
RequestSucceeds(t, v) ==
    /\ ePc[t] = "request"
    /\ ePc' = [ePc EXCEPT ![t] = "ok"]
    /\ got' = [got EXCEPT ![t] = v]
    /\ UNCHANGED <<texts, i, results, bPc, attempt, nreq, slept, lastError,
                   raised, caught>>

\* lines 80-101: the request of text t fails; back off and retry, or give up
\* after the last attempt and throw EmbeddingGenerationException
RequestFails(t, kind) ==
    /\ ePc[t] = "request"
    /\ lastError' = [lastError EXCEPT ![t] = kind]
    /\ caught' = [caught EXCEPT ![t] = Append(@, kind)]
    /\ IF MayRetry(attempt[t])
       THEN /\ slept' = [slept EXCEPT ![t] = Append(@, BackoffDelay(attempt[t]))]
            /\ ePc' = [ePc EXCEPT ![t] = "sleep"]
            /\ UNCHANGED raised
       ELSE /\ ePc' = [ePc EXCEPT ![t] = "failed"]
            /\ raised' = [raised EXCEPT ![t] = "EmbeddingGenerationException"]
            /\ UNCHANGED slept
    /\ UNCHANGED <<texts, i, results, bPc, attempt, nreq, got>>

\* lines 89 and 68-70: the backoff timer of text t fires, the loop increments
\* attempt and issues the next request
SleepDone(t) ==
    /\ ePc[t] = "sleep"
    /\ attempt' = [attempt EXCEPT ![t] = @ + 1]
    /\ IF attempt[t] + 1 <= maxRetries
       THEN /\ ePc' = [ePc EXCEPT ![t] = "request"]
            /\ nreq' = [nreq EXCEPT ![t] = @ + 1]
            /\ UNCHANGED raised
       ELSE /\ ePc' = [ePc EXCEPT ![t] = "failed"]
            /\ raised' = [raised EXCEPT ![t] = "EmbeddingGenerationException"]
            /\ UNCHANGED nreq
    /\ UNCHANGED <<texts, i, results, bPc, slept, got, lastError, caught>>

\* lines 137-149: Promise.all resolves once every call of the group settled
\* (the .catch turns a rejection into null); results are appended in input
\* order and the loop advances
BatchJoin ==
    /\ bPc = "await"
    /\ \A t \in Batch(i) : ePc[t] \in {"ok", "failed"}
    /\ results' = results \o CollectBatch(i, ePc, got)
    /\ i' = i + batchSize
    /\ bPc' = "loop"
    /\ UNCHANGED <<texts, ePc, attempt, nreq, slept, got, lastError, raised,
                   caught>>

\* lines 108-110 (empty input) and 151-156: the call returns results
BatchReturn ==
    /\ bPc \in {"idle", "loop"}
    /\ i >= texts
    /\ bPc' = "done"
    /\ UNCHANGED <<texts, i, results, ePc, attempt, nreq, slept, got,
                   lastError, raised, caught>>

(***************************************************************************)
(* ==========  IndexStorageService and IndexingController  ==============  *)
(***************************************************************************)
\* bound: number of document ids uuidv4() hands out in one run
MaxDocs == 2

\* bound: largest number of chunks createChunks returns for one document
MaxChunks == 2

\* bound: number of indexDocument requests that can be in progress together
MaxProcs == 2

Filepaths == {"a.md", "b.md"}

Procs == 1..MaxProcs

DocIds == 1..MaxDocs

VARIABLES
    documents,   \* table documents: rows [id, filepath]
    chunks,      \* table chunks: rows [id, document_id, position]
    embeddings,  \* table embeddings: rows [chunk_id, vector]
    nextId,      \* next value uuidv4() returns in saveDocument
    ipc,         \* per request: position of IndexingController.indexDocument
    idoc,        \* per request: documentId
    ichunks,     \* per request: chunks (rows handed to saveChunks)
    batches,     \* history: per document id, size of its saveChunks batch
    last         \* history: the last handler step and its outcome

storeVars == <<documents, chunks, embeddings, nextId, ipc, idoc, ichunks,
               batches, last>>

\* detail: for indexSave and indexEmbed the statement at which the engine
\* reported an I/O error (0 = none), for delete the number of chunk rows the
\* cascade removed
Op(op, id, result, saveChunks, detail) ==
    [op |-> op, id |-> id, result |-> result, saveChunks |-> saveChunks,
     detail |-> detail]

NoOp == Op("none", 0, "none", "notcalled", 0)

\* the chunks createChunks returned, after documentId is set (lines 78-81);
\* chunk ids are fresh uuids, modelled as the pair <<document, position>>
ChunkRows(d, n) ==
    [k \in 1..n |-> [id |-> <<d, k - 1>>, document_id |-> d, position |-> k - 1]]

\* INSERT INTO documents with PRIMARY KEY (id) only
DocumentInsertableById(docs, row) ==
    \A r \in docs : r.id # row.id

\* INSERT INTO documents: PRIMARY KEY (id) and UNIQUE (filepath)
DocumentInsertable(docs, row) ==
    /\ \A r \in docs : r.id # row.id
    /\ \A r \in docs : r.filepath # row.filepath

\* INSERT INTO chunks: PRIMARY KEY (id), FOREIGN KEY (document_id)
ChunkInsertable(docs, chs, row) ==
    /\ \A r \in chs : r.id # row.id
    /\ \E r \in docs : r.id = row.document_id

\* INSERT INTO embeddings without the FOREIGN KEY (chunk_id) check
EmbeddingInsertableNoFk(chs, embs, row) ==
    \A r \in embs : r.chunk_id # row.chunk_id

\* INSERT INTO embeddings: PRIMARY KEY (chunk_id), FOREIGN KEY (chunk_id)
EmbeddingInsertable(chs, embs, row) ==
    /\ \A r \in embs : r.chunk_id # row.chunk_id
    /\ \E r \in chs : r.id = row.chunk_id

\* the loop of stmt.run calls inside the transaction function: rows are
\* inserted in order until one fails (constraint, or the I/O error the
\* engine reports at statement ioFailAt; 0 = no I/O error)
RECURSIVE InsertChunks(_, _, _, _, _)
InsertChunks(docs, chs, rows, k, ioFailAt) ==
    IF k > Len(rows) THEN [chunks |-> chs, ok |-> TRUE]
    ELSE IF k = ioFailAt \/ ~ChunkInsertable(docs, chs, rows[k])
         THEN [chunks |-> chs, ok |-> FALSE]
         ELSE InsertChunks(docs, chs \cup {rows[k]}, rows, k + 1, ioFailAt)

\* saveChunks without the transaction wrapper: rows inserted before the
\* failing one stay stored
SaveChunksNoTransaction(docs, chs, rows, ioFailAt) ==
    IF Len(rows) = 0 THEN [chunks |-> chs, ok |-> TRUE]
    ELSE InsertChunks(docs, chs, rows, 1, ioFailAt)

\* saveChunks: db.transaction(...) commits when the function returns and
\* rolls back when it throws; the error is rethrown
SaveChunks(docs, chs, rows, ioFailAt) ==
    IF Len(rows) = 0 THEN [chunks |-> chs, ok |-> TRUE]
    ELSE LET r == InsertChunks(docs, chs, rows, 1, ioFailAt)
         IN IF r.ok THEN r ELSE [chunks |-> chs, ok |-> FALSE]

\* saveDocument: one INSERT, rethrows on failure
SaveDocument(docs, row, ioFail) ==
    IF ioFail \/ ~DocumentInsertable(docs, row)
    THEN [documents |-> docs, ok |-> FALSE]
    ELSE [documents |-> docs \cup {row}, ok |-> TRUE]

\* saveEmbedding: one INSERT (autocommit), rethrows on failure
SaveEmbedding(chs, embs, row, ioFail) ==
    IF ioFail \/ ~EmbeddingInsertable(chs, embs, row)
    THEN [embeddings |-> embs, ok |-> FALSE]
    ELSE [embeddings |-> embs \cup {row}, ok |-> TRUE]

\* indexDocument lines 93-105: saveEmbedding for every chunk whose embedding
\* is non-empty, in order; the first failure ends the loop with an exception
RECURSIVE SaveEmbeddings(_, _, _, _, _, _)
SaveEmbeddings(chs, embs, rows, vecs, k, ioFailAt) ==
    IF k > Len(rows) THEN [embeddings |-> embs, ok |-> TRUE]
    ELSE IF Len(vecs[k]) = 0
         THEN SaveEmbeddings(chs, embs, rows, vecs, k + 1, ioFailAt)
         ELSE LET r == SaveEmbedding(chs, embs,
                           [chunk_id |-> rows[k].id, vector |-> vecs[k]],
                           k = ioFailAt)
              IN IF r.ok
                 THEN SaveEmbeddings(chs, r.embeddings, rows, vecs, k + 1,
                                     ioFailAt)
                 ELSE r

\* null, and a found row r as <<r>>
Null == <<>>

\* getDocumentById: the row or null
GetDocumentById(docs, id) ==
    IF \E r \in docs : r.id = id
    THEN <<CHOOSE r \in docs : r.id = id>>
    ELSE Null

\* getChunksByDocumentId: SELECT ... WHERE document_id = ? ORDER BY position
GetChunksByDocumentId(chs, id) ==
    LET mine == {r \in chs : r.document_id = id}
        RECURSIVE Sorted(_)
        Sorted(S) == IF S = {} THEN <<>>
                     ELSE LET m == CHOOSE r \in S :
                                     \A q \in S : r.position <= q.position
                          IN <<m>> \o Sorted(S \ {m})
    IN Sorted(mine)

\* getAllEmbeddings: embeddings JOIN chunks JOIN documents
GetAllEmbeddings(docs, chs, embs) ==
    {[chunkId |-> e.chunk_id, vector |-> e.vector, documentId |-> c.document_id] :
        <<e, c>> \in {x \in embs \X chs :
                        /\ x[1].chunk_id = x[2].id
                        /\ \E d \in docs : d.id = x[2].document_id}}

\* DELETE FROM documents WHERE id = ? with the cascades switched off
DeleteDocumentNoCascade(docs, chs, embs, id) ==
    IF \E r \in docs : r.id = id
    THEN [documents |-> {r \in docs : r.id # id}, chunks |-> chs,
          embeddings |-> embs, ok |-> TRUE]
    ELSE [documents |-> docs, chunks |-> chs, embeddings |-> embs, ok |-> FALSE]

\* deleteDocument that ignores result.changes
DeleteDocumentSilent(docs, chs, embs, id) ==
    LET gone == {r.id : r \in {c \in chs : c.document_id = id}}
    IN [documents |-> {r \in docs : r.id # id},
        chunks |-> {r \in chs : r.document_id # id},
        embeddings |-> {r \in embs : r.chunk_id \notin gone},
        ok |-> TRUE]

\* deleteDocument: DELETE FROM documents WHERE id = ?; ON DELETE CASCADE
\* removes the chunks of the document and their embeddings; throws when
\* result.changes is 0
DeleteDocument(docs, chs, embs, id) ==
    LET gone == {r.id : r \in {c \in chs : c.document_id = id}}
    IN IF \E r \in docs : r.id = id
       THEN [documents |-> {r \in docs : r.id # id},
             chunks |-> {r \in chs : r.document_id # id},
             embeddings |-> {r \in embs : r.chunk_id \notin gone},
             ok |-> TRUE]
       ELSE [documents |-> docs, chunks |-> chs, embeddings |-> embs,
             ok |-> FALSE]

StoreIdle ==
    /\ documents = {} /\ chunks = {} /\ embeddings = {}
    /\ nextId = 1
    /\ ipc = [p \in Procs |-> "idle"]
    /\ idoc = [p \in Procs |-> 0]
    /\ ichunks = [p \in Procs |-> <<>>]
    /\ batches = [d \in DocIds |-> 0]
    /\ last = NoOp

\* initDatabase / runMigrations: empty tables
InitStore == StoreIdle

\* documents whose indexDocument run is suspended in generateEmbeddingsBatch
Indexing == {idoc[p] : p \in {q \in Procs : ipc[q] = "embedding"}}

\* a new request is served in the first free request slot
FreeSlot(p) == ipc[p] = "idle" /\ \A q \in Procs : q < p => ipc[q] # "idle"

\* indexDocument lines 50-72: the request is rejected before the store is
\* touched (file missing, not .md, parse failure, or no chunks)
IndexDocumentRejected(p) ==
    /\ FreeSlot(p)
    /\ last' = Op("indexRejected", 0, "error", "notcalled", 0)
    /\ UNCHANGED <<documents, chunks, embeddings, nextId, ipc, idoc, ichunks,
                   batches>>

\* indexDocument lines 74-90: saveDocument, set documentId, saveChunks, then
\* suspend in generateEmbeddingsBatch; runs without interleaving (no await)
IndexDocumentSave(p, f, n, docIoFail, chunkIoFailAt) ==
    /\ FreeSlot(p)
    /\ nextId <= MaxDocs
    /\ LET d == nextId
           rows == ChunkRows(d, n)
           r1 == SaveDocument(documents, [id |-> d, filepath |-> f], docIoFail)
           r2 == SaveChunks(r1.documents, chunks, rows, chunkIoFailAt)
       IN /\ nextId' = nextId + 1
          /\ documents' = r1.documents
          /\ chunks' = IF r1.ok THEN r2.chunks ELSE chunks
          /\ batches' = IF r1.ok THEN [batches EXCEPT ![d] = n] ELSE batches
          /\ IF r1.ok /\ r2.ok
             THEN /\ ipc' = [ipc EXCEPT ![p] = "embedding"]
                  /\ idoc' = [idoc EXCEPT ![p] = d]
                  /\ ichunks' = [ichunks EXCEPT ![p] = rows]
             ELSE UNCHANGED <<ipc, idoc, ichunks>>
          /\ last' = Op("indexSave", d,
                        IF r1.ok /\ r2.ok THEN "ok" ELSE "error",
                        IF ~r1.ok THEN "notcalled"
                        ELSE IF r2.ok THEN "ok" ELSE "error",
                        IF r1.ok THEN chunkIoFailAt
                        ELSE IF docIoFail THEN 1 ELSE 0)
    /\ UNCHANGED embeddings

\* indexDocument lines 88-115: generateEmbeddingsBatch resolves with one
\* vector per chunk (empty where the embedding failed) and the loop stores
\* the non-empty ones
IndexDocumentEmbed(p, vecs, ioFailAt) ==
    /\ ipc[p] = "embedding"
    /\ LET r == SaveEmbeddings(chunks, embeddings, ichunks[p], vecs, 1, ioFailAt)
       IN /\ embeddings' = r.embeddings
          /\ last' = Op("indexEmbed", idoc[p],
                        IF r.ok THEN "ok" ELSE "error", "notcalled", ioFailAt)
    /\ ipc' = [ipc EXCEPT ![p] = "idle"]
    /\ idoc' = [idoc EXCEPT ![p] = 0]
    /\ ichunks' = [ichunks EXCEPT ![p] = <<>>]
    /\ UNCHANGED <<documents, chunks, nextId, batches>>

\* IndexingController.deleteDocument: getDocumentById, then
\* IndexStorageService.deleteDocument
DeleteDocumentRequest(id) ==
    /\ LET doc == GetDocumentById(documents, id)
           r == DeleteDocument(documents, chunks, embeddings, id)
       IN IF doc = Null
          THEN /\ last' = Op("delete", id, "notfound", "notcalled", 0)
               /\ UNCHANGED <<documents, chunks, embeddings>>
          ELSE /\ documents' = r.documents
               /\ chunks' = r.chunks
               /\ embeddings' = r.embeddings
               /\ last' = Op("delete", id, IF r.ok THEN "ok" ELSE "error",
                             "notcalled",
                             Cardinality(chunks) - Cardinality(r.chunks))
    /\ UNCHANGED <<nextId, ipc, idoc, ichunks, batches>>

\* IndexingController.getDocumentById: the document with its chunks, or 404
GetDocumentRequest(id) ==
    /\ LET doc == GetDocumentById(documents, id)
       IN last' = Op("getDocumentById", id,
                     IF doc = Null THEN "notfound" ELSE "found", "notcalled", 0)
    /\ UNCHANGED <<documents, chunks, embeddings, nextId, ipc, idoc, ichunks,
                   batches>>

\* SearchService.semanticSearch, from getAllEmbeddings on (the part after its
\* only await): the search sees the joined embeddings
SearchRequest ==
    /\ last' = Op("search", 0, "ok", "notcalled", 0)
    /\ UNCHANGED <<documents, chunks, embeddings, nextId, ipc, idoc, ichunks,
                   batches>>

(***************************************************************************)
(* ======================  Strings (JavaScript)  ========================  *)
(* A string is a sequence of one-character strings.                        *)
(***************************************************************************)
NL == "\n"

IsWs(c) == c \in {" ", NL}

IsTerm(c) == c \in {".", "!", "?"}

Clamp(x, lo, hi) == Max(lo, Min(x, hi))

\* String.prototype.substring(a, b): indices clamped to [0, length] and
\* swapped when a > b
Substring(str, a, b) ==
    LET a1 == Clamp(a, 0, Len(str))
        b1 == Clamp(b, 0, Len(str))
    IN SubSeq(str, Min(a1, b1) + 1, Max(a1, b1))

\* String.prototype.trim()
RECURSIVE Trim(_)
Trim(str) ==
    IF Len(str) = 0 THEN str
    ELSE IF IsWs(str[1]) THEN Trim(Tail(str))
    ELSE IF IsWs(str[Len(str)]) THEN Trim(SubSeq(str, 1, Len(str) - 1))
    ELSE str

\* String.prototype.lastIndexOf(c): 0-based, -1 when absent
LastIndexOf(str, c) ==
    LET hits == {k \in 1..Len(str) : str[k] = c}
    IN IF hits = {} THEN -1
       ELSE (CHOOSE k \in hits : \A j \in hits : j <= k) - 1

\* Array.prototype.join(sep)
RECURSIVE Join(_, _)
Join(parts, sep) ==
    IF Len(parts) = 0 THEN <<>>
    ELSE IF Len(parts) = 1 THEN parts[1]
    ELSE parts[1] \o sep \o Join(Tail(parts), sep)

\* first index >= k that is not whitespace / a terminator / a newline, or
\* Len + 1
RECURSIVE SkipWs(_, _)
SkipWs(str, k) ==
    IF k <= Len(str) /\ IsWs(str[k]) THEN SkipWs(str, k + 1) ELSE k

RECURSIVE SkipTerm(_, _)
SkipTerm(str, k) ==
    IF k <= Len(str) /\ IsTerm(str[k]) THEN SkipTerm(str, k + 1) ELSE k

RECURSIVE SkipNl(_, _)
SkipNl(str, k) ==
    IF k <= Len(str) /\ str[k] = NL THEN SkipNl(str, k + 1) ELSE k

\* text.split(/\n\n+/)
RECURSIVE SplitParagraphs(_)
SplitParagraphs(str) ==
    LET starts == {k \in 1..(Len(str) - 1) : str[k] = NL /\ str[k + 1] = NL}
    IN IF starts = {} THEN <<str>>
       ELSE LET k == CHOOSE x \in starts : \A y \in starts : x <= y
                j == SkipNl(str, k)
            IN <<SubSeq(str, 1, k - 1)>>
                 \o SplitParagraphs(SubSeq(str, j, Len(str)))

\* text.split(/([.!?]+\s+)/): the pieces alternate with the captured
\* delimiters, so the array has odd length
RECURSIVE SplitSentences(_)
SplitSentences(str) ==
    LET starts == {k \in 1..Len(str) :
                     /\ IsTerm(str[k])
                     /\ SkipTerm(str, k) <= Len(str)
                     /\ IsWs(str[SkipTerm(str, k)])}
    IN IF starts = {} THEN <<str>>
       ELSE LET k == CHOOSE x \in starts : \A y \in starts : x <= y
                j == SkipWs(str, SkipTerm(str, k))
            IN <<SubSeq(str, 1, k - 1), SubSeq(str, k, j - 1)>>
                 \o SplitSentences(SubSeq(str, j, Len(str)))

\* Math.ceil(n / d) for n >= 0
CeilDiv(n, d) == (n + d - 1) \div d

(***************************************************************************)
(* ====================  DocumentParserService  =========================  *)
(* A markdown body is a sequence of top-level blocks: headings             *)
(* [type, level, text] and paragraphs [type, level = 0, text].             *)
(***************************************************************************)
Heading(level, text) == [type |-> "heading", level |-> level, text |-> text]

Paragraph(text) == [type |-> "paragraph", level |-> 0, text |-> text]

RECURSIVE Hashes(_)
Hashes(n) == IF n = 0 THEN <<>> ELSE <<"#">> \o Hashes(n - 1)

\* the source text of the body (what gray-matter returns as content)
RawContent(blocks) ==
    Join([k \in 1..Len(blocks) |->
            IF blocks[k].type = "heading"
            THEN Hashes(blocks[k].level) \o <<" ">> \o blocks[k].text
            ELSE blocks[k].text],
         <<NL, NL>>)

\* extractSectionContent: the text of every node after the heading at index
\* h up to the next heading of the same or a shallower level, joined by a
\* blank line and trimmed
ExtractSectionContent(blocks, h) ==
    LET stops == {k \in (h + 1)..Len(blocks) :
                    /\ blocks[k].type = "heading"
                    /\ blocks[k].level <= blocks[h].level}
        end == IF stops = {} THEN Len(blocks)
               ELSE (CHOOSE k \in stops : \A j \in stops : k <= j) - 1
        RECURSIVE Parts(_)
        Parts(k) == IF k > end THEN <<>>
                    ELSE (IF Len(Trim(blocks[k].text)) > 0
                          THEN <<Trim(blocks[k].text)>> ELSE <<>>) \o Parts(k + 1)
    IN Trim(Join(Parts(h + 1), <<NL, NL>>))

\* pops only the open sections that are strictly deeper than the new heading
RECURSIVE PopStackStrictlyDeeper(_, _)
PopStackStrictlyDeeper(stack, level) ==
    IF Len(stack) > 0 /\ stack[Len(stack)].level > level
    THEN PopStackStrictlyDeeper(SubSeq(stack, 1, Len(stack) - 1), level)
    ELSE stack

\* the while loop of extractSections: pop every open section whose level is
\* >= the new heading's level
RECURSIVE PopStack(_, _)
PopStack(stack, level) ==
    IF Len(stack) > 0 /\ stack[Len(stack)].level >= level
    THEN PopStack(SubSeq(stack, 1, Len(stack) - 1), level)
    ELSE stack

\* extractSections: one section per heading, in document order; ids are the
\* ordinals 1, 2, ... and parentId 0 stands for undefined
RECURSIVE ExtractSectionsFrom(_, _, _, _)
ExtractSectionsFrom(blocks, k, sections, stack) ==
    IF k > Len(blocks) THEN sections
    ELSE IF blocks[k].type # "heading"
         THEN ExtractSectionsFrom(blocks, k + 1, sections, stack)
         ELSE LET popped == PopStack(stack, blocks[k].level)
                  section == [id |-> Len(sections) + 1,
                              level |-> blocks[k].level,
                              heading |-> Trim(blocks[k].text),
                              content |-> ExtractSectionContent(blocks, k),
                              parentId |-> IF Len(popped) > 0
                                           THEN popped[Len(popped)].id ELSE 0]
              IN ExtractSectionsFrom(blocks, k + 1, Append(sections, section),
                                     Append(popped, section))

ExtractSections(blocks) == ExtractSectionsFrom(blocks, 1, <<>>, <<>>)

\* parseMarkdown: the ParsedDocument of a body
ParseMarkdown(blocks) ==
    [sections |-> ExtractSections(blocks), rawContent |-> RawContent(blocks)]

(***************************************************************************)
(* ========================  ChunkingService  ===========================  *)
(* Every splitter returns [chunks, returned, pending]; returned is FALSE   *)
(* when a character-window loop was still running after MaxSteps           *)
(* iterations, and pending then names that loop.                           *)
(***************************************************************************)
\* bound: iterations a window loop is followed for
MaxSteps == 4

Chunk(content, sectionHeading, position, tokenCount) ==
    [content |-> content, sectionHeading |-> sectionHeading,
     position |-> position, tokenCount |-> tokenCount]

\* the window loop a call is still inside: which loop, its text, the
\* section heading and the position of its first chunk
Pending(loopName, text, sectionHeading, startPosition) ==
    [loop |-> loopName, text |-> text, sectionHeading |-> sectionHeading,
     startPosition |-> startPosition]

NoPending == Pending("none", <<>>, <<>>, 0)

Returned(chs) == [chunks |-> chs, returned |-> TRUE, pending |-> NoPending]

Running(chs, pending) ==
    [chunks |-> chs, returned |-> FALSE, pending |-> pending]

\* `## ${sectionHeading}\n\n` when preserveHeadings is set and the heading is
\* a non-empty string, otherwise nothing
HeadingPrefix(cfg, sectionHeading) ==
    IF cfg.preserveHeadings /\ Len(sectionHeading) > 0
    THEN <<"#", "#", " ">> \o sectionHeading \o <<NL, NL>>
    ELSE <<>>

\* getOverlapText
GetOverlapText(text, overlapSize) ==
    IF Len(text) <= overlapSize THEN text
    ELSE Substring(text, Len(text) - overlapSize, Len(text))

\* the position counter is left where it was
NextChunkPosStale(chunkPos, produced) == chunkPos

\* chunkCounter += sectionChunks.length, chunkPos += sentenceChunks.length,
\* chunkPos++ (produced = 1)
NextChunkPos(chunkPos, produced) == chunkPos + produced

\* createChunkFromSection
CreateChunkFromSection(section, position) ==
    Chunk(Trim(section.content), section.heading, position,
          CeilDiv(Len(Trim(section.content)), 4))

\* createChunkFromText
CreateChunkFromText(text, cfg, position, sectionHeading) ==
    LET content == HeadingPrefix(cfg, sectionHeading) \o Trim(text)
    IN Chunk(content, sectionHeading, position, CeilDiv(Len(content), 4))

\* the body of the while loop of splitByChars;
\* st = [position, chunkPos, chunks]
SplitByCharsStep(text, cfg, sectionHeading, st) ==
    LET chunkSize == Min(cfg.maxChunkSize, Len(text) - st.position)
        chunkText == Substring(text, st.position, st.position + chunkSize)
    IN [position |-> st.position + chunkSize - cfg.overlap,
        chunkPos |-> NextChunkPos(st.chunkPos, 1),
        chunks |-> Append(st.chunks,
                     Chunk(HeadingPrefix(cfg, sectionHeading) \o chunkText,
                           sectionHeading, st.chunkPos,
                           CeilDiv(Len(chunkText), 4)))]

\* let position = 0; let chunkPos = startPosition
WindowStart(startPosition) ==
    [position |-> 0, chunkPos |-> startPosition, chunks |-> <<>>]

\* while (position < text.length) { ... } return chunks
RECURSIVE SplitByCharsLoop(_, _, _, _, _, _)
SplitByCharsLoop(text, cfg, startPosition, sectionHeading, st, fuel) ==
    IF ~(st.position < Len(text)) THEN Returned(st.chunks)
    ELSE IF fuel = 0
    THEN Running(st.chunks,
                 Pending("chars", text, sectionHeading, startPosition))
    ELSE SplitByCharsLoop(text, cfg, startPosition, sectionHeading,
                          SplitByCharsStep(text, cfg, sectionHeading, st),
                          fuel - 1)

\* splitByChars
SplitByChars(text, cfg, startPosition, sectionHeading) ==
    SplitByCharsLoop(text, cfg, startPosition, sectionHeading,
                     WindowStart(startPosition), MaxSteps)

\* the state of a paragraph or sentence loop
LoopStart(startPosition) ==
    [currentChunk |-> <<>>, chunkPos |-> startPosition, chunks |-> <<>>,
     returned |-> TRUE, pending |-> NoPending]

\* chunks.push(createChunkFromText(currentChunk, ..., chunkPos++, ...)) and
\* the restart of currentChunk from the overlap
EmitCurrentChunk(cfg, sectionHeading, st, restart) ==
    [st EXCEPT
       !.chunks = Append(@, CreateChunkFromText(st.currentChunk, cfg,
                                                st.chunkPos, sectionHeading)),
       !.chunkPos = NextChunkPos(@, 1),
       !.currentChunk = restart]

\* chunks.push(...pieces) and chunkPos += pieces.length
PushPieces(st, r) ==
    [st EXCEPT !.chunks = @ \o r.chunks,
               !.chunkPos = NextChunkPos(@, Len(r.chunks)),
               !.returned = r.returned,
               !.pending = r.pending]

\* the for loop of splitBySentences from index k (1-based, step 2) on
RECURSIVE SplitBySentencesLoop(_, _, _, _, _)
SplitBySentencesLoop(sentences, k, cfg, sectionHeading, st) ==
    IF ~st.returned \/ k > Len(sentences) THEN st
    ELSE
      LET sentence == sentences[k] \o
                        (IF k + 1 <= Len(sentences) THEN sentences[k + 1]
                         ELSE <<>>)
      IN SplitBySentencesLoop(sentences, k + 2, cfg, sectionHeading,
           IF Len(st.currentChunk) + Len(sentence) <= cfg.maxChunkSize
           THEN [st EXCEPT !.currentChunk = @ \o sentence]
           ELSE IF Len(st.currentChunk) > 0
           THEN EmitCurrentChunk(cfg, sectionHeading, st,
                   GetOverlapText(st.currentChunk, cfg.overlap) \o sentence)
           ELSE PushPieces(st, SplitByChars(sentence, cfg, st.chunkPos,
                                            sectionHeading)))

\* if (currentChunk) chunks.push(createChunkFromText(...)); return chunks
FlushCurrentChunk(cfg, sectionHeading, st) ==
    IF st.returned /\ Len(st.currentChunk) > 0
    THEN Returned(Append(st.chunks,
                    CreateChunkFromText(st.currentChunk, cfg, st.chunkPos,
                                        sectionHeading)))
    ELSE [chunks |-> st.chunks, returned |-> st.returned,
          pending |-> st.pending]

\* splitBySentences
SplitBySentences(text, cfg, startPosition, sectionHeading) ==
    FlushCurrentChunk(cfg, sectionHeading,
        SplitBySentencesLoop(SplitSentences(text), 1, cfg, sectionHeading,
                             LoopStart(startPosition)))

\* the for loop over paragraphs of splitTextRecursive
RECURSIVE SplitParagraphsLoop(_, _, _, _, _)
SplitParagraphsLoop(paragraphs, k, cfg, sectionHeading, st) ==
    IF ~st.returned \/ k > Len(paragraphs) THEN st
    ELSE
      LET paragraph == paragraphs[k]
      IN SplitParagraphsLoop(paragraphs, k + 1, cfg, sectionHeading,
           IF Len(st.currentChunk) + Len(paragraph) + 2 <= cfg.maxChunkSize
           THEN [st EXCEPT !.currentChunk =
                   (IF Len(@) > 0 THEN @ \o <<NL, NL>> ELSE <<>>) \o paragraph]
           ELSE IF Len(st.currentChunk) > 0
           THEN EmitCurrentChunk(cfg, sectionHeading, st,
                   GetOverlapText(st.currentChunk, cfg.overlap)
                     \o <<NL, NL>> \o paragraph)
           ELSE PushPieces(st, SplitBySentences(paragraph, cfg, st.chunkPos,
                                                sectionHeading)))

\* splitTextRecursive
SplitTextRecursive(text, cfg, startPosition, sectionHeading) ==
    IF Len(text) <= cfg.maxChunkSize
    THEN Returned(<<Chunk(HeadingPrefix(cfg, sectionHeading) \o text,
                          sectionHeading, startPosition,
                          CeilDiv(Len(text), 4))>>)
    ELSE IF Len(SplitParagraphs(text)) > 1
    THEN FlushCurrentChunk(cfg, sectionHeading,
            SplitParagraphsLoop(SplitParagraphs(text), 1, cfg, sectionHeading,
                                LoopStart(startPosition)))
    ELSE SplitBySentences(text, cfg, startPosition, sectionHeading)

\* groupSectionsByLevel
GroupSectionsByLevel(sections) ==
    [level \in 1..6 |-> SelectSeq(sections, LAMBDA sec : sec.level = level)]

\* getSubsections
GetSubsections(parentSection, doc) ==
    SelectSeq(doc.sections,
              LAMBDA sec : sec.level = 3 /\ sec.parentId = parentSection.id)

\* chunks.push(...more) and counter += more.length inside a loop over
\* sections; acc = [chunks, returned, pending, counter]
PushSectionChunks(acc, r) ==
    [chunks |-> acc.chunks \o r.chunks, returned |-> r.returned,
     pending |-> r.pending, counter |-> NextChunkPos(acc.counter, Len(r.chunks))]

SectionLoopStart(startPosition) ==
    [chunks |-> <<>>, returned |-> TRUE, pending |-> NoPending,
     counter |-> startPosition]

Result(acc) ==
    [chunks |-> acc.chunks, returned |-> acc.returned, pending |-> acc.pending]

\* splitSectionRecursive
RECURSIVE SplitSectionRecursive(_, _, _, _)
SplitSectionRecursive(section, doc, cfg, startPosition) ==
    IF Len(section.content) <= cfg.maxChunkSize
    THEN Returned(<<CreateChunkFromSection(section, startPosition)>>)
    ELSE LET subsections == GetSubsections(section, doc)
             RECURSIVE Each(_, _)
             Each(k, acc) ==
                IF k > Len(subsections) \/ ~acc.returned THEN acc
                ELSE Each(k + 1, PushSectionChunks(acc,
                        SplitSectionRecursive(subsections[k], doc, cfg,
                                              acc.counter)))
         IN IF Len(subsections) > 0
            THEN Result(Each(1, SectionLoopStart(startPosition)))
            ELSE SplitTextRecursive(section.content, cfg, startPosition,
                                    section.heading)

\* createChunksRecursive
CreateChunksRecursive(doc, cfg) ==
    LET level2 == GroupSectionsByLevel(doc.sections)[2]
        RECURSIVE Each(_, _)
        Each(k, acc) ==
           IF k > Len(level2) \/ ~acc.returned THEN acc
           ELSE Each(k + 1, PushSectionChunks(acc,
                   SplitSectionRecursive(level2[k], doc, cfg, acc.counter)))
        sectioned == Each(1, SectionLoopStart(0))
    IN IF sectioned.returned /\ Len(sectioned.chunks) = 0
       THEN SplitTextRecursive(doc.rawContent, cfg, 0, <<"r", "o", "o", "t">>)
       ELSE Result(sectioned)

\* createChunksBySection
CreateChunksBySection(doc, cfg) ==
    LET RECURSIVE Each(_, _)
        Each(k, acc) ==
           IF k > Len(doc.sections) \/ ~acc.returned THEN acc
           ELSE Each(k + 1, PushSectionChunks(acc,
                   IF Len(doc.sections[k].content) <= cfg.maxChunkSize
                   THEN Returned(<<CreateChunkFromSection(doc.sections[k],
                                                          acc.counter)>>)
                   ELSE SplitTextRecursive(doc.sections[k].content, cfg,
                                           acc.counter,
                                           doc.sections[k].heading)))
    IN Result(Each(1, SectionLoopStart(0)))

\* the body of the while loop of createChunksFixed;
\* st = [position, chunkPos (chunkCounter in the source), chunks]
CreateChunksFixedStep(content, cfg, st) ==
    LET chunkEnd == Min(st.position + cfg.maxChunkSize, Len(content))
        window == Substring(content, st.position, chunkEnd)
        lastSentenceEnd == Max(Max(LastIndexOf(window, "."),
                                   LastIndexOf(window, "!")),
                               LastIndexOf(window, "?"))
        chunkText == IF chunkEnd < Len(content)
                        /\ lastSentenceEnd > cfg.minChunkSize
                     THEN Substring(window, 0, lastSentenceEnd + 1)
                     ELSE window
    IN [position |-> st.position + Len(chunkText) - cfg.overlap,
        chunkPos |-> NextChunkPos(st.chunkPos, 1),
        chunks |-> Append(st.chunks,
                     Chunk(Trim(chunkText), <<>>, st.chunkPos,
                           CeilDiv(Len(chunkText), 4)))]

\* while (position < content.length) { ... } return chunks
RECURSIVE CreateChunksFixedLoop(_, _, _, _)
CreateChunksFixedLoop(content, cfg, st, fuel) ==
    IF ~(st.position < Len(content)) THEN Returned(st.chunks)
    ELSE IF fuel = 0
    THEN Running(st.chunks, Pending("fixed", content, <<>>, 0))
    ELSE CreateChunksFixedLoop(content, cfg,
                               CreateChunksFixedStep(content, cfg, st),
                               fuel - 1)

\* createChunksFixed
CreateChunksFixed(doc, cfg) ==
    CreateChunksFixedLoop(doc.rawContent, cfg, WindowStart(0), MaxSteps)

\* createChunks, from the effective chunkingConfig on
CreateChunks(doc, cfg) ==
    IF cfg.strategy = "recursive" THEN CreateChunksRecursive(doc, cfg)
    ELSE IF cfg.strategy = "section" THEN CreateChunksBySection(doc, cfg)
    ELSE CreateChunksFixed(doc, cfg)

\* bound: top-level blocks of a document body
MaxBlocks == 3

\* paragraph texts: one that fits, one sentence longer than any window, and
\* three short sentences
Texts == {<<"a", "a">>,
          <<"a", "a", "a", "a", "a", "a", "a">>,
          <<"a", ".", " ", "b", "b", ".", " ", "c">>}

BlockPool == {Heading(level, <<"h">>) : level \in 1..3}
               \cup {Paragraph(t) : t \in Texts}

Bodies == UNION {[1..n -> BlockPool] : n \in 0..MaxBlocks}

\* effective chunking configurations; `config?.overlap || ... || 200` and
\* `config?.minChunkSize || ... || 200` never yield 0
Configs ==
    [maxChunkSize : {4, 6}, minChunkSize : {1}, overlap : {1, 2},
     preserveHeadings : BOOLEAN, strategy : {"recursive", "section", "fixed"}]

VARIABLES
    blocks,     \* the markdown body handed to parseMarkdown
    cfg,        \* the effective ChunkingConfig
    cpc,        \* "ready", "done", or the window loop createChunks is inside
    result,     \* what createChunks has produced
    window,     \* position, chunkPos and chunks of the running window loop
    steps       \* iterations of that loop followed so far

chunkVars == <<blocks, cfg, cpc, result, window, steps>>

ChunkIdle ==
    /\ blocks = <<>>
    /\ cfg = [maxChunkSize |-> 4, minChunkSize |-> 1, overlap |-> 1,
              preserveHeadings |-> FALSE, strategy |-> "recursive"]
    /\ cpc = "parked"
    /\ result = Returned(<<>>)
    /\ window = WindowStart(0)
    /\ steps = 0

InitChunk ==
    /\ blocks \in Bodies
    /\ cfg \in Configs
    /\ cpc = "ready"
    /\ result = Returned(<<>>)
    /\ window = WindowStart(0)
    /\ steps = 0

\* createChunks(parseMarkdown(body), config): runs to its return, or into a
\* window loop that is followed one iteration at a time
CreateChunksCall ==
    /\ cpc = "ready"
    /\ result' = CreateChunks(ParseMarkdown(blocks), cfg)
    /\ cpc' = IF result'.returned THEN "done" ELSE result'.pending.loop
    /\ window' = WindowStart(result'.pending.startPosition)
    /\ steps' = 0
    /\ UNCHANGED <<blocks, cfg>>

\* one iteration of the while loop of createChunksFixed
CreateChunksFixedIterate ==
    /\ cpc = "fixed"
    /\ steps < MaxSteps
    /\ window.position < Len(result.pending.text)
    /\ window' = CreateChunksFixedStep(result.pending.text, cfg, window)
    /\ steps' = steps + 1
    /\ UNCHANGED <<blocks, cfg, cpc, result>>

\* one iteration of the while loop of splitByChars
SplitByCharsIterate ==
    /\ cpc = "chars"
    /\ steps < MaxSteps
    /\ window.position < Len(result.pending.text)
    /\ window' = SplitByCharsStep(result.pending.text, cfg,
                                  result.pending.sectionHeading, window)
    /\ steps' = steps + 1
    /\ UNCHANGED <<blocks, cfg, cpc, result>>

(***************************************************************************)
(* ==========================  SearchService  ===========================  *)
(* Scores are hundredths: similarity.cosine = 0.6 is the score 60.         *)
(***************************************************************************)
\* defaultTopK: `get('indexing.search.defaultTopK') || 5`
defaultTopK == 5

\* defaultMinScore: `get('indexing.search.minScore') || 0.3`
defaultMinScore == 30

\* stored vectors: one of another dimension, and two of the query's
\* dimension with cosine 1.0 and 0.6 to the query (indexDocument stores no
\* empty vector; a chunk whose embedding failed has no row)
SearchVectors == {<<1>>, <<1, 0>>, <<3, 4>>}

\* the vector generateEmbedding resolves with for the query
QueryVectors == {<<1, 0>>}

\* SearchOptions: topK 0 stands for an absent topK (`options.topK ||
\* default` treats both alike), minScore and documentIds are Null or <<x>>
SearchOptionSets ==
    [topK : {0, 2}, minScore : {Null, <<70>>},
     documentIds : {Null, <<{1}>>}]

VARIABLES
    spc,        \* position of the search call: idle, embedding, done, failed
    skind,      \* "semanticSearch" or "searchWithRAG"
    sopts,      \* the SearchOptions of the call
    sseen,      \* history: what getAllEmbeddings returned to the call
    sresults,   \* the SearchResult[] returned
    scontext,   \* the context searchWithRAG returned
    sraced      \* history: the store changed while the call was awaiting

searchVars == <<spc, skind, sopts, sseen, sresults, scontext, sraced>>

NoOptions == [topK |-> 0, minScore |-> Null, documentIds |-> Null]

SearchIdle ==
    /\ spc = "idle" /\ skind = "none" /\ sopts = NoOptions
    /\ sseen = <<>> /\ sresults = <<>> /\ scontext = <<>>
    /\ sraced = FALSE

\* const topK = options.topK || this.defaultTopK
EffectiveTopK(opts) == IF opts.topK # 0 THEN opts.topK ELSE defaultTopK

\* const minScore = options.minScore ?? this.defaultMinScore
EffectiveMinScore(opts) ==
    IF opts.minScore = Null THEN defaultMinScore ELSE opts.minScore[1]

RECURSIVE Dot(_, _)
Dot(a, b) == IF Len(a) = 0 THEN 0 ELSE a[1] * b[1] + Dot(Tail(a), Tail(b))

\* the Euclidean norm, exact for the vectors used
Norm(a) == CHOOSE n \in 0..Dot(a, a) : n * n = Dot(a, a)

\* similarity.cosine(a, b) of ml-distance, in hundredths
Cosine(a, b) == (100 * Dot(a, b)) \div (Norm(a) * Norm(b))

\* the rows of getAllEmbeddings in table order
RECURSIVE InRowOrder(_)
InRowOrder(S) ==
    IF S = {} THEN <<>>
    ELSE LET first == CHOOSE r \in S : \A q \in S :
                         \/ r.documentId < q.documentId
                         \/ /\ r.documentId = q.documentId
                            /\ r.chunkId[2] <= q.chunkId[2]
         IN <<first>> \o InRowOrder(S \ {first})

\* step 3 of semanticSearch counts an embedding only when its vector is
\* non-empty, of the query's dimension and scores at least minScore
Scored(queryEmbedding, minScore, item) ==
    /\ Len(item.vector) # 0
    /\ Len(item.vector) = Len(queryEmbedding)
    /\ Cosine(queryEmbedding, item.vector) >= minScore

\* step 3 without its two `continue` checks: every stored embedding is
\* pushed, the ones that cannot be compared with score 0
SimilaritiesNothingSkipped(queryEmbedding, minScore, allEmbeddings) ==
    [k \in 1..Len(allEmbeddings) |->
       [chunkId |-> allEmbeddings[k].chunkId,
        documentId |-> allEmbeddings[k].documentId,
        score |-> IF Len(allEmbeddings[k].vector) = Len(queryEmbedding)
                  THEN Cosine(queryEmbedding, allEmbeddings[k].vector)
                  ELSE 0]]

\* step 3: the similarities array
Similarities(queryEmbedding, minScore, allEmbeddings) ==
    LET kept == SelectSeq(allEmbeddings,
                   LAMBDA item : Scored(queryEmbedding, minScore, item))
    IN [k \in 1..Len(kept) |->
          [chunkId |-> kept[k].chunkId, documentId |-> kept[k].documentId,
           score |-> Cosine(queryEmbedding, kept[k].vector)]]

\* step 4: options.filters.documentIds
FilterByDocumentIds(opts, similarities) ==
    IF opts.documentIds # Null /\ opts.documentIds[1] # {}
    THEN SelectSeq(similarities,
                   LAMBDA item : item.documentId \in opts.documentIds[1])
    ELSE similarities

\* Array.prototype.sort left out: the items stay in table order
SortByScoreSkipped(items) == items

\* Array.prototype.sort((a, b) => b.score - a.score): stable, descending
RECURSIVE SortByScore(_)
SortByScore(items) ==
    IF Len(items) = 0 THEN <<>>
    ELSE LET rest == SortByScore(Tail(items))
             before == SelectSeq(rest, LAMBDA x : x.score > items[1].score)
             after == SelectSeq(rest, LAMBDA x : x.score <= items[1].score)
         IN before \o <<items[1]>> \o after

\* Array.prototype.slice(0, n) for n >= 0
Slice(items, n) == SubSeq(items, 1, Min(n, Len(items)))

\* step 7: one SearchResult per top item whose document getDocumentById
\* finds, with rank i + 1
RECURSIVE FormResults(_, _, _)
FormResults(docs, topResults, k) ==
    IF k > Len(topResults) THEN <<>>
    ELSE (IF GetDocumentById(docs, topResults[k].documentId) = Null
          THEN <<>>
          ELSE <<[chunkId |-> topResults[k].chunkId,
                  score |-> topResults[k].score,
                  rank |-> k,
                  documentId |-> topResults[k].documentId,
                  filepath |-> GetDocumentById(docs,
                                  topResults[k].documentId)[1].filepath]>>)
         \o FormResults(docs, topResults, k + 1)

\* semanticSearch from getAllEmbeddings to its return
SemanticSearch(queryEmbedding, opts, docs, allEmbeddings) ==
    IF Len(allEmbeddings) = 0 THEN <<>>
    ELSE FormResults(docs,
            Slice(SortByScore(FilterByDocumentIds(opts,
                     Similarities(queryEmbedding, EffectiveMinScore(opts),
                                  allEmbeddings))),
                  EffectiveTopK(opts)),
            1)

\* searchWithRAG: `[${filepath}]\n${content}` per result, joined by
\* '\n\n---\n\n'; the chunk id stands for the chunk's content
BuildContext(found) ==
    Join([k \in 1..Len(found) |->
             <<"[", found[k].filepath, "]", NL, found[k].chunkId>>],
         <<NL, NL, "-", "-", "-", NL, NL>>)

\* searchWithRAG that opens the context with a separator whatever it found
RagContextLedBySeparator(found) ==
    <<"-", "-", "-", NL, NL>> \o BuildContext(found)

\* searchWithRAG lines 213-225: '' when nothing was found
RagContext(found) ==
    IF Len(found) = 0 THEN <<>> ELSE BuildContext(found)

\* another request changes the store before the search call, or while it
\* awaits generateEmbedding
StoreStepBesideSearch ==
    /\ spc \in {"idle", "embedding"}
    /\ sraced' = (sraced \/ (spc = "embedding"
                              /\ embeddings' # embeddings))
    /\ UNCHANGED <<spc, skind, sopts, sseen, sresults, scontext>>

\* semanticSearch(query, options) or searchWithRAG(query, topK) is called
\* and awaits generateEmbedding(query)
SemanticSearchCall(kind, opts) ==
    /\ spc = "idle"
    /\ kind = "searchWithRAG" =>
          opts.topK # 0 /\ opts.minScore = Null /\ opts.documentIds = Null
    /\ spc' = "embedding"
    /\ skind' = kind
    /\ sopts' = opts
    /\ UNCHANGED <<sseen, sresults, scontext, sraced>>

\* generateEmbedding resolved: the rest of semanticSearch runs without
\* another await, then searchWithRAG builds its context
SemanticSearchScan(queryEmbedding) ==
    /\ spc = "embedding"
    /\ spc' = "done"
    /\ sseen' = InRowOrder(GetAllEmbeddings(documents, chunks, embeddings))
    /\ sresults' = SemanticSearch(queryEmbedding, sopts, documents, sseen')
    /\ scontext' = IF skind = "searchWithRAG"
                   THEN RagContext(sresults') ELSE <<>>
    /\ UNCHANGED <<skind, sopts, sraced>>

\* generateEmbedding rejected or a store read threw: the error is rethrown
SemanticSearchFails ==
    /\ spc = "embedding"
    /\ spc' = "failed"
    /\ UNCHANGED <<skind, sopts, sseen, sresults, scontext, sraced>>

(***************************************************************************)
(* ========================  RerankerService  ===========================  *)
(* src/unnamed/part_013.  Scores are in hundredths: 0.5 is 50, 1 is 100.   *)
(***************************************************************************)
\* bound: largest number of search results handed to rerankResults
MaxCands == 3

DigitChars == <<"0", "1", "2", "3", "4", "5", "6", "7", "8", "9">>

IsDigit(c) == c \in Range(DigitChars)

DigitValue(c) == (CHOOSE d \in 1..Len(DigitChars) : DigitChars[d] = c) - 1

\* first index >= k that is not a decimal digit
RECURSIVE DigitsEnd(_, _)
DigitsEnd(str, k) ==
    IF k <= Len(str) /\ IsDigit(str[k]) THEN DigitsEnd(str, k + 1) ELSE k

\* the number written by the digits str[a] .. str[b - 1]; 0 when there are none
RECURSIVE DigitsValue(_, _, _)
DigitsValue(str, a, b) ==
    IF b <= a THEN 0
    ELSE 10 * DigitsValue(str, a, b - 1) + DigitValue(str[b - 1])

\* parseFloat(str) in hundredths, Null for NaN: leading whitespace, a sign,
\* digits, a point and digits; whatever follows the number is ignored.
\* Fraction digits past the second are dropped by the unit; exponents and
\* the word Infinity do not occur in the replies enumerated below.
ParseFloat(str) ==
    LET s0 == SkipWs(str, 1)
        signed == s0 <= Len(str) /\ str[s0] \in {"-", "+"}
        negative == signed /\ str[s0] = "-"
        s1 == IF signed THEN s0 + 1 ELSE s0
        e1 == DigitsEnd(str, s1)
        hasPoint == e1 <= Len(str) /\ str[e1] = "."
        s2 == IF hasPoint THEN e1 + 1 ELSE e1
        e2 == IF hasPoint THEN DigitsEnd(str, s2) ELSE s2
        tenths == IF e2 > s2 THEN DigitValue(str[s2]) ELSE 0
        hundredths == IF e2 > s2 + 1 THEN DigitValue(str[s2 + 1]) ELSE 0
        magnitude == 100 * DigitsValue(str, s1, e1) + 10 * tenths + hundredths
    IN IF e1 = s1 /\ e2 = s2 THEN Null
       ELSE <<IF negative THEN 0 - magnitude ELSE magnitude>>

\* data.response of the judgment replies: '0.8', '1.5', '-0.3', 'abc', '',
\* ' 0.25 ok', 'Score: 0.9'
ReplyTexts ==
    { <<"0", ".", "8">>,
      <<"1", ".", "5">>,
      <<"-", "0", ".", "3">>,
      <<"a", "b", "c">>,
      <<>>,
      <<" ", "0", ".", "2", "5", " ", "o", "k">>,
      <<"S", "c", "o", "r", "e", ":", " ", "0", ".", "9">> }

\* how one judgment request ends: the 5 s abort, a rejected fetch, a status
\* that is not ok, a body that is not JSON, or a JSON body with its text
Replies ==
    [kind : {"timeout", "network", "status", "badjson"}, text : {<<>>}]
       \cup [kind : {"text"}, text : ReplyTexts]

\* scoreRelevance that takes a failed request for an irrelevant document
ScoreRelevanceFailureIsZero(reply) ==
    IF reply.kind # "text" THEN 0
    ELSE LET score == ParseFloat(Trim(reply.text))
         IN IF score = Null THEN 0 ELSE Max(0, Min(100, score[1]))

\* scoreRelevance: the value the promise of one candidate resolves to
ScoreRelevance(reply) ==
    IF reply.kind # "text" THEN 50
    ELSE LET score == ParseFloat(Trim(reply.text))
         IN IF score = Null THEN 0 ELSE Max(0, Min(100, score[1]))

\* a SearchResult as semanticSearch forms it
Candidate(k) ==
    [chunkId |-> <<1, k - 1>>, score |-> 100 - 10 * k, rank |-> k,
     documentId |-> 1, filepath |-> "a.md"]

\* { ...result, rerankScore }
RankedResult(candidate, rerankScore) ==
    [chunkId |-> candidate.chunkId, score |-> candidate.score,
     rank |-> candidate.rank, documentId |-> candidate.documentId,
     filepath |-> candidate.filepath, rerankScore |-> rerankScore]

\* rerankResults without line 61
SortByRerankScoreSkipped(items) == items

\* a sort that puts, among equal rerankScores, the higher vector score first
RECURSIVE SortByRerankScoreThenScore(_)
SortByRerankScoreThenScore(items) ==
    IF Len(items) <= 1 THEN items
    ELSE LET Before(a, b) ==
                \/ a.rerankScore > b.rerankScore
                \/ a.rerankScore = b.rerankScore /\ a.score > b.score
             best == CHOOSE k \in 1..Len(items) :
                        /\ \A j \in 1..Len(items) : ~Before(items[j], items[k])
                        /\ \A j \in 1..(k - 1) : Before(items[k], items[j])
         IN <<items[best]>> \o
            SortByRerankScoreThenScore(SubSeq(items, 1, best - 1) \o
                                       SubSeq(items, best + 1, Len(items)))

\* rankedResults.sort((a, b) => b.rerankScore - a.rerankScore): stable
RECURSIVE SortByRerankScore(_)
SortByRerankScore(items) ==
    IF Len(items) <= 1 THEN items
    ELSE LET best == CHOOSE k \in 1..Len(items) :
                        /\ \A j \in 1..Len(items) :
                              items[j].rerankScore <= items[k].rerankScore
                        /\ \A j \in 1..(k - 1) :
                              items[j].rerankScore < items[k].rerankScore
         IN <<items[best]>> \o
            SortByRerankScore(SubSeq(items, 1, best - 1) \o
                              SubSeq(items, best + 1, Len(items)))

VARIABLES rpc, rcands, rtopK, rreplies, rscores, rout

rerankVars == <<rpc, rcands, rtopK, rreplies, rscores, rout>>

RerankIdle ==
    /\ rpc = "idle" /\ rcands = <<>> /\ rtopK = 0
    /\ rreplies = <<>> /\ rscores = <<>> /\ rout = <<>>

\* rerankResults(query, results, topK) is called: [] at once for no
\* results, otherwise one scoreRelevance request per result is started
RerankResultsCall(n, topK) ==
    /\ rpc = "idle"
    /\ rcands' = [k \in 1..n |-> Candidate(k)]
    /\ rtopK' = topK
    /\ rreplies' = [k \in 1..n |-> Null]
    /\ rscores' = [k \in 1..n |-> Null]
    /\ rpc' = IF n = 0 THEN "done" ELSE "scoring"
    /\ rout' = <<>>

\* the request of candidate k ends and its promise resolves
ScoreRelevanceSettles(k, reply) ==
    /\ rpc = "scoring"
    /\ k \in 1..Len(rcands)
    /\ rreplies[k] = Null
    /\ rreplies' = [rreplies EXCEPT ![k] = <<reply>>]
    /\ rscores' = [rscores EXCEPT ![k] = <<ScoreRelevance(reply)>>]
    /\ UNCHANGED <<rpc, rcands, rtopK, rout>>

\* Promise.all resolved: sort, slice, return
RerankResultsReturn ==
    /\ rpc = "scoring"
    /\ \A k \in 1..Len(rcands) : rscores[k] # Null
    /\ rout' = Slice(SortByRerankScore(
                        [k \in 1..Len(rcands) |->
                            RankedResult(rcands[k], rscores[k][1])]),
                     rtopK)
    /\ rpc' = "done"
    /\ UNCHANGED <<rcands, rtopK, rreplies, rscores>>

(***************************************************************************)
(* ============================  RagService  ============================  *)
(* src/src/modules/rag/rag.service.ts, with OllamaService.generate.        *)
(* Thresholds and scores are in hundredths.                                *)
(***************************************************************************)
\* bound: largest number of thresholds handed to compareThresholds
MaxThresholds == 2

\* queryWithRAG(question, topK = 3)
ragTopK == 3

\* searchWithThreshold(question, 10, threshold)
thresholdTopK == 10

\* results.slice(0, 3) of queryWithFilteredRAG
contextSize == 3

\* rerankResults(question, results, 3)
rerankTopK == 3

\* queryWithReranking(question, initialThreshold = 0.6)
initialThreshold == 60

\* compareMethods: queryWithFilteredRAG(question, 0.7)
methodsThreshold == 70

\* findBestThreshold: bestThreshold 0.7 when no result qualifies
defaultBestThreshold == 70

Thresholds == {50, 70, 90}

\* cosine scores of the chunks of the index for one question, best first
ScoreLists ==
    { <<>>, <<95, 92>>, <<95, 65>>, <<75, 72, 55>>, <<65, 40>>, <<55, 40>>,
      <<85, 75, 72, 62>> }

\* what semanticSearch returns for the question with minScore 0
Hits(scores) ==
    [k \in 1..Len(scores) |-> [Candidate(k) EXCEPT !.score = scores[k]]]

\* the rerankScores the judgments give (see RerankerService)
RerankScores == {50, 90}

RECURSIVE Sum(_)
Sum(seq) == IF Len(seq) = 0 THEN 0 ELSE seq[1] + Sum(Tail(seq))

\* SearchService.searchWithThreshold(question, topK, threshold): the topK
\* best results, of which those scoring at least threshold are kept;
\* `total` counts them before the filter and `filtered` after it
SearchWithThreshold(hits, topK, threshold) ==
    LET candidates == Slice(hits, topK)
        kept == SelectSeq(candidates, LAMBDA h : h.score >= threshold)
    IN [results |-> kept, total |-> Len(candidates), filtered |-> Len(kept)]

\* SearchService.searchWithRAG(question, topK): semanticSearch with the
\* default minScore
SearchWithRAGResults(hits, topK) ==
    Slice(SelectSeq(hits, LAMBDA h : h.score >= defaultMinScore), topK)

NoResponse ==
    [answer |-> "", sources |-> <<>>, scores |-> <<>>, rerankScores |-> <<>>,
     usedDocuments |-> 0, totalCandidates |-> 0, afterFilter |-> 0]

\* the early return of queryWithFilteredRAG and of queryWithReranking
CannedResponse(total) ==
    [NoResponse EXCEPT !.answer = "canned", !.totalCandidates = total]

SourcesOf(found) == [k \in 1..Len(found) |-> found[k].filepath]

VectorScores(found) == [k \in 1..Len(found) |-> found[k].score]

\* the value queryWithRAG, queryWithoutRAG, queryWithFilteredRAG or
\* queryWithReranking resolves to once generate returned
GeneratedResponse(st) ==
    CASE st.method = "basic" ->
           [NoResponse EXCEPT !.answer = "generated",
                              !.sources = SourcesOf(st.found)]
      [] st.method = "direct" ->
           [NoResponse EXCEPT !.answer = "generated"]
      [] st.method = "filtered" ->
           LET topResults == Slice(st.found, contextSize)
           IN [answer |-> "generated",
               sources |-> SourcesOf(topResults),
               scores |-> VectorScores(topResults),
               rerankScores |-> <<>>,
               usedDocuments |-> Len(topResults),
               totalCandidates |-> st.total,
               afterFilter |-> Len(st.found)]
      [] st.method = "reranked" ->
           [answer |-> "generated",
            sources |-> SourcesOf(st.ranked),
            scores |-> VectorScores(st.ranked),
            rerankScores |-> [k \in 1..Len(st.ranked) |->
                                 st.ranked[k].rerankScore],
            usedDocuments |-> Len(st.ranked),
            totalCandidates |-> st.total,
            afterFilter |-> Len(st.found)]

\* a strategy that goes on to generate whatever the search kept
AfterThresholdSearchNoShortCut(method, filtered) ==
    IF method = "reranked" THEN "rerank" ELSE "generate"

\* `if (filtered === 0) return {...}` and what follows the threshold search
AfterThresholdSearch(method, filtered) ==
    IF filtered = 0 THEN "done"
    ELSE IF method = "reranked" THEN "rerank" ELSE "generate"

\* findBestThreshold: the first result, in the order given, that used at
\* least 2 documents whose scores average above 0.7
RECURSIVE FindBestThresholdFrom(_, _)
FindBestThresholdFrom(items, k) ==
    IF k > Len(items)
    THEN [bestThreshold |-> defaultBestThreshold, reason |-> "default"]
    ELSE IF /\ items[k].usedDocuments >= 2
            /\ Len(items[k].scores) > 0
            /\ Sum(items[k].scores) > 70 * Len(items[k].scores)
         THEN [bestThreshold |-> items[k].threshold, reason |-> "documents"]
         ELSE FindBestThresholdFrom(items, k + 1)

FindBestThreshold(items) == FindBestThresholdFrom(items, 1)

\* generateQualityComparison with its second and third test exchanged
GenerateQualityComparisonFilteredFirst(basic, filtered, reranked) ==
    LET filteredDocs == filtered.usedDocuments
        rerankedDocs == Len(reranked.sources)
    IN IF filteredDocs = 0 /\ rerankedDocs = 0 THEN "noResults"
       ELSE IF /\ Len(filtered.scores) > 0
               /\ filtered.scores[1] > 70
               /\ filteredDocs >= 2 THEN "filteredAdequate"
       ELSE IF rerankedDocs > 0 /\ reranked.rerankScores[1] > 80
            THEN "rerankConfident"
       ELSE "inconclusive"

\* generateQualityComparison: the qualityComparison text, by name
GenerateQualityComparison(basic, filtered, reranked) ==
    LET filteredDocs == filtered.usedDocuments
        rerankedDocs == Len(reranked.sources)
    IN IF filteredDocs = 0 /\ rerankedDocs = 0 THEN "noResults"
       ELSE IF rerankedDocs > 0 /\ reranked.rerankScores[1] > 80
            THEN "rerankConfident"
       ELSE IF /\ Len(filtered.scores) > 0
               /\ filtered.scores[1] > 70
               /\ filteredDocs >= 2 THEN "filteredAdequate"
       ELSE "inconclusive"

VARIABLES gkind, ghits, gstrat, gout

ragVars == <<gkind, ghits, gstrat, gout>>

NoOutcome ==
    [status |-> "none", bestThreshold |-> 0, reason |-> "", verdict |-> ""]

RagIdle ==
    /\ gkind = "none" /\ ghits = <<>> /\ gstrat = <<>> /\ gout = NoOutcome

\* one strategy of the operation: where it is, the external calls it has
\* made so far, and what it holds
Strategy(method, threshold) ==
    [method |-> method, threshold |-> threshold,
     pc |-> IF method = "direct" THEN "generate" ELSE "search",
     calls |-> <<>>, found |-> <<>>, total |-> 0, ranked |-> <<>>,
     error |-> "none", response |-> NoResponse]

\* the strategies an operation starts, in the order of its Promise.all
Strategies(kind, thresholds) ==
    CASE kind = "queryWithFilteredRAG" ->
           <<Strategy("filtered", thresholds[1])>>
      [] kind = "queryWithReranking" ->
           <<Strategy("reranked", thresholds[1])>>
      [] kind = "compare" ->
           <<Strategy("basic", 0), Strategy("direct", 0)>>
      [] kind = "compareThresholds" ->
           [k \in 1..Len(thresholds) |-> Strategy("filtered", thresholds[k])]
      [] kind = "compareMethods" ->
           <<Strategy("basic", 0), Strategy("filtered", methodsThreshold),
             Strategy("reranked", initialThreshold)>>

\* an operation of RagService is called on an index that gives `scores`
RagCall(kind, scores, thresholds) ==
    /\ gkind = "none"
    /\ gkind' = kind
    /\ ghits' = Hits(scores)
    /\ gstrat' = Strategies(kind, thresholds)
    /\ gout' = [NoOutcome EXCEPT !.status = "pending"]

\* the search a strategy awaits returns
StrategySearchReturns(s) ==
    /\ s \in 1..Len(gstrat)
    /\ gstrat[s].pc = "search"
    /\ LET st == gstrat[s]
           r == SearchWithThreshold(ghits, thresholdTopK, st.threshold)
           next == AfterThresholdSearch(st.method, r.filtered)
       IN gstrat' =
            [gstrat EXCEPT ![s] =
               IF st.method = "basic"
               THEN [st EXCEPT !.pc = "generate",
                               !.calls = Append(st.calls, "search"),
                               !.found = SearchWithRAGResults(ghits, ragTopK),
                               !.total = Len(ghits)]
               ELSE [st EXCEPT !.pc = next,
                               !.calls = Append(st.calls, "search"),
                               !.found = r.results,
                               !.total = r.total,
                               !.response = IF next = "done"
                                            THEN CannedResponse(r.total)
                                            ELSE NoResponse]]
    /\ UNCHANGED <<gkind, ghits, gout>>

\* the search throws (the query could not be embedded)
StrategySearchFails(s) ==
    /\ s \in 1..Len(gstrat)
    /\ gstrat[s].pc = "search"
    /\ gstrat' = [gstrat EXCEPT ![s].pc = "failed",
                                ![s].calls = Append(@, "search"),
                                ![s].error = "embedding"]
    /\ UNCHANGED <<gkind, ghits, gout>>

\* rerankResults(question, results, 3) returns; it never throws
StrategyRerankReturns(s, judged) ==
    /\ s \in 1..Len(gstrat)
    /\ gstrat[s].pc = "rerank"
    /\ LET st == gstrat[s]
       IN gstrat' =
            [gstrat EXCEPT ![s] =
               [st EXCEPT !.pc = "generate",
                          !.calls = Append(st.calls, "rerank"),
                          !.ranked =
                             Slice(SortByRerankScore(
                                      [k \in 1..Len(st.found) |->
                                          RankedResult(st.found[k], judged[k])]),
                                   rerankTopK)]]
    /\ UNCHANGED <<gkind, ghits, gout>>

\* OllamaService.generate returns the answer
StrategyGenerateReturns(s) ==
    /\ s \in 1..Len(gstrat)
    /\ gstrat[s].pc = "generate"
    /\ LET st == gstrat[s]
       IN gstrat' =
            [gstrat EXCEPT ![s] =
               [st EXCEPT !.pc = "done",
                          !.calls = Append(st.calls, "generate"),
                          !.response = GeneratedResponse(st)]]
    /\ UNCHANGED <<gkind, ghits, gout>>

\* OllamaService.generate throws: the abort after the timeout, or no
\* connection; the strategy logs and rethrows
StrategyGenerateFails(s, error) ==
    /\ s \in 1..Len(gstrat)
    /\ gstrat[s].pc = "generate"
    /\ gstrat' = [gstrat EXCEPT ![s].pc = "failed",
                                ![s].calls = Append(@, "generate"),
                                ![s].error = error]
    /\ UNCHANGED <<gkind, ghits, gout>>

\* Promise.all resolved: every strategy returned, the operation returns
OperationResolves ==
    /\ gout.status = "pending"
    /\ \A s \in 1..Len(gstrat) : gstrat[s].pc = "done"
    /\ gout' =
         CASE gkind = "compareThresholds" ->
                LET best == FindBestThreshold(
                               [k \in 1..Len(gstrat) |->
                                  [threshold |-> gstrat[k].threshold,
                                   usedDocuments |->
                                      gstrat[k].response.usedDocuments,
                                   scores |-> gstrat[k].response.scores]])
                IN [status |-> "resolved",
                    bestThreshold |-> best.bestThreshold,
                    reason |-> best.reason, verdict |-> ""]
           [] gkind = "compareMethods" ->
                [NoOutcome EXCEPT
                    !.status = "resolved",
                    !.verdict = GenerateQualityComparison(
                                   gstrat[1].response, gstrat[2].response,
                                   gstrat[3].response)]
           [] OTHER -> [NoOutcome EXCEPT !.status = "resolved"]
    /\ UNCHANGED <<gkind, ghits, gstrat>>

\* Promise.all rejected: one strategy threw, the operation logs and
\* rethrows while the other strategies may still be running
OperationRejects ==
    /\ gout.status = "pending"
    /\ \E s \in 1..Len(gstrat) : gstrat[s].pc = "failed"
    /\ gout' = [NoOutcome EXCEPT !.status = "rejected"]
    /\ UNCHANGED <<gkind, ghits, gstrat>>

(***************************************************************************)
(* ==============  Document timestamps (saveDocument)  ==================  *)
(* src/unnamed/part_011 119-144 with the metadata of part_006 47-56.       *)
(* Instants are clock readings; ISO strings of one format compare alike.   *)
(***************************************************************************)
\* bound: last reading of the clock
MaxClock == 3

\* bound: number of documents saved
MaxStamped == 2

\* the `created` key of the frontmatter: absent, or a YAML timestamp (a
\* Date, before or after the moment of indexing)
DeclaredCreated == {Null} \cup {<<d>> : d \in 0..(MaxClock + 1)}

\* parseMarkdown: metadata.created is `new Date(frontmatter.created)` or
\* undefined, then overwritten by the spread `...frontmatter` with the
\* frontmatter's own value
MetadataCreated(declared) == declared

\* saveDocument: created_at is `doc.metadata.created?.toISOString() || now`,
\* indexed_at is now
DocumentTimestamps(created, now) ==
    [created_at |-> IF created = Null THEN now ELSE created[1],
     indexed_at |-> now]

VARIABLES tclock, tdocs

stampVars == <<tclock, tdocs>>

StampIdle == tclock = 0 /\ tdocs = <<>>

\* time passes
ClockTick ==
    /\ tclock < MaxClock
    /\ tclock' = tclock + 1
    /\ UNCHANGED tdocs

\* a parsed document whose frontmatter declares `declared` is saved
SaveDocumentAt(declared) ==
    /\ Len(tdocs) < MaxStamped
    /\ tdocs' = Append(tdocs,
                       DocumentTimestamps(MetadataCreated(declared), tclock))
    /\ UNCHANGED tclock

(***************************************************************************)
(* Specifications                                                          *)
(***************************************************************************)
\* the components a document passes through on its way into the index and
\* out of it by search
coreVars == <<embedVars, storeVars, chunkVars, searchVars>>

CoreIdle ==
    /\ texts = 0 /\ EmbedIdle
    /\ StoreIdle /\ ChunkIdle /\ SearchIdle

\* the components of the question answering module
laterVars == <<rerankVars, ragVars, stampVars>>

LaterIdle == RerankIdle /\ RagIdle /\ StampIdle

vars == <<coreVars, laterVars>>

InitEmbedSpec == InitEmbed /\ StoreIdle /\ ChunkIdle /\ SearchIdle
    /\ LaterIdle

NextEmbedSpec ==
    \/ BatchStartGroup /\ UNCHANGED <<storeVars, chunkVars, searchVars, laterVars>>
    \/ \E t \in TextIds, v \in Vectors :
          RequestSucceeds(t, v) /\ UNCHANGED <<storeVars, chunkVars, searchVars, laterVars>>
    \/ \E t \in TextIds, kind \in FailureKinds :
          RequestFails(t, kind) /\ UNCHANGED <<storeVars, chunkVars, searchVars, laterVars>>
    \/ \E t \in TextIds : SleepDone(t) /\ UNCHANGED <<storeVars, chunkVars, searchVars, laterVars>>
    \/ BatchJoin /\ UNCHANGED <<storeVars, chunkVars, searchVars, laterVars>>
    \/ BatchReturn /\ UNCHANGED <<storeVars, chunkVars, searchVars, laterVars>>

\* one generateEmbeddingsBatch call and the generateEmbedding calls it makes
SpecEmbed == InitEmbedSpec /\ [][NextEmbedSpec]_vars

InitStoreSpec ==
    InitStore /\ texts = 0 /\ EmbedIdle /\ ChunkIdle /\ SearchIdle
    /\ LaterIdle

NextStoreSpec ==
    \/ \E p \in Procs : IndexDocumentRejected(p) /\ UNCHANGED <<embedVars, chunkVars, searchVars, laterVars>>
    \/ \E p \in Procs, f \in Filepaths, n \in 1..MaxChunks, df \in BOOLEAN :
          \E cf \in IF df THEN {0} ELSE 0..n :
             IndexDocumentSave(p, f, n, df, cf) /\ UNCHANGED <<embedVars, chunkVars, searchVars, laterVars>>
    \/ \E p \in Procs :
          \E vecs \in [1..Len(ichunks[p]) -> {<<>>, <<1>>}] :
             \E ef \in {0} \cup {k \in 1..Len(ichunks[p]) : vecs[k] # <<>>} :
               IndexDocumentEmbed(p, vecs, ef) /\ UNCHANGED <<embedVars, chunkVars, searchVars, laterVars>>
    \/ \E id \in DocIds : DeleteDocumentRequest(id) /\ UNCHANGED <<embedVars, chunkVars, searchVars, laterVars>>
    \/ \E id \in DocIds : GetDocumentRequest(id) /\ UNCHANGED <<embedVars, chunkVars, searchVars, laterVars>>
    \/ SearchRequest /\ UNCHANGED <<embedVars, chunkVars, searchVars, laterVars>>

\* the vector store under concurrent index, delete and read requests
SpecStore == InitStoreSpec /\ [][NextStoreSpec]_vars

InitChunkSpec ==
    InitChunk /\ texts = 0 /\ EmbedIdle /\ StoreIdle /\ SearchIdle
    /\ LaterIdle

NextChunkSpec ==
    \/ CreateChunksCall /\ UNCHANGED <<embedVars, storeVars, searchVars, laterVars>>
    \/ CreateChunksFixedIterate /\ UNCHANGED <<embedVars, storeVars, searchVars, laterVars>>
    \/ SplitByCharsIterate /\ UNCHANGED <<embedVars, storeVars, searchVars, laterVars>>

\* one createChunks call on a parsed document
SpecChunk == InitChunkSpec /\ [][NextChunkSpec]_vars

InitSearchSpec ==
    InitStore /\ SearchIdle /\ texts = 0 /\ EmbedIdle /\ ChunkIdle
    /\ LaterIdle

NextSearchSpec ==
    \/ \E f \in Filepaths :
          /\ IndexDocumentSave(1, f, 2, FALSE, 0)
          /\ StoreStepBesideSearch
          /\ UNCHANGED <<embedVars, chunkVars, laterVars>>
    \/ \E vecs \in [1..Len(ichunks[1]) -> SearchVectors] :
          /\ IndexDocumentEmbed(1, vecs, 0)
          /\ StoreStepBesideSearch
          /\ UNCHANGED <<embedVars, chunkVars, laterVars>>
    \/ \E id \in DocIds :
          /\ DeleteDocumentRequest(id)
          /\ StoreStepBesideSearch
          /\ UNCHANGED <<embedVars, chunkVars, laterVars>>
    \/ \E kind \in {"semanticSearch", "searchWithRAG"},
          opts \in SearchOptionSets :
             /\ SemanticSearchCall(kind, opts)
             /\ UNCHANGED <<embedVars, chunkVars, storeVars, laterVars>>
    \/ \E q \in QueryVectors :
          /\ SemanticSearchScan(q)
          /\ UNCHANGED <<embedVars, chunkVars, storeVars, laterVars>>
    \/ SemanticSearchFails /\ UNCHANGED <<embedVars, chunkVars, storeVars, laterVars>>

\* a search call while documents are indexed (one request at a time, which
\* is all a search can tell apart) and deleted
SpecSearch == InitSearchSpec /\ [][NextSearchSpec]_vars

InitRerankSpec == CoreIdle /\ RerankIdle /\ RagIdle /\ StampIdle

NextRerankSpec ==
    \/ \E n \in 0..MaxCands, topK \in 1..MaxCands :
          RerankResultsCall(n, topK) /\ UNCHANGED <<coreVars, ragVars, stampVars>>
    \/ \E k \in 1..MaxCands, reply \in Replies :
          ScoreRelevanceSettles(k, reply) /\ UNCHANGED <<coreVars, ragVars, stampVars>>
    \/ RerankResultsReturn /\ UNCHANGED <<coreVars, ragVars, stampVars>>

\* one rerankResults call and the judgment requests it runs side by side
SpecRerank == InitRerankSpec /\ [][NextRerankSpec]_vars

\* the threshold lists of the operations: one threshold for a single query,
\* up to MaxThresholds different ones in any order for compareThresholds
ThresholdLists(kind) ==
    CASE kind = "queryWithFilteredRAG" -> {<<t>> : t \in Thresholds}
      [] kind = "queryWithReranking" -> {<<initialThreshold>>, <<90>>}
      [] kind = "compareThresholds" ->
           {ts \in UNION {[1..n -> Thresholds] : n \in 1..MaxThresholds} :
               \A a, b \in 1..Len(ts) : a # b => ts[a] # ts[b]}
      [] OTHER -> {<<>>}

InitRagSpec == CoreIdle /\ RerankIdle /\ RagIdle /\ StampIdle

NextRagSpec ==
    \/ \E kind \in {"queryWithFilteredRAG", "queryWithReranking", "compare",
                    "compareThresholds", "compareMethods"},
          scores \in ScoreLists :
          \E thresholds \in ThresholdLists(kind) :
             RagCall(kind, scores, thresholds)
             /\ UNCHANGED <<coreVars, rerankVars, stampVars>>
    \/ \E s \in 1..Len(gstrat) :
          StrategySearchReturns(s) /\ UNCHANGED <<coreVars, rerankVars, stampVars>>
    \/ \E s \in 1..Len(gstrat) :
          StrategySearchFails(s) /\ UNCHANGED <<coreVars, rerankVars, stampVars>>
    \/ \E s \in 1..Len(gstrat) :
          \E judged \in [1..Len(gstrat[s].found) -> RerankScores] :
             StrategyRerankReturns(s, judged)
             /\ UNCHANGED <<coreVars, rerankVars, stampVars>>
    \/ \E s \in 1..Len(gstrat) :
          StrategyGenerateReturns(s) /\ UNCHANGED <<coreVars, rerankVars, stampVars>>
    \/ \E s \in 1..Len(gstrat), error \in {"timeout", "connection"} :
          StrategyGenerateFails(s, error)
          /\ UNCHANGED <<coreVars, rerankVars, stampVars>>
    \/ OperationResolves /\ UNCHANGED <<coreVars, rerankVars, stampVars>>
    \/ OperationRejects /\ UNCHANGED <<coreVars, rerankVars, stampVars>>

\* one operation of RagService and the strategies it runs side by side
SpecRag == InitRagSpec /\ [][NextRagSpec]_vars

InitStampSpec == CoreIdle /\ RerankIdle /\ RagIdle /\ StampIdle

NextStampSpec ==
    \/ ClockTick /\ UNCHANGED <<coreVars, rerankVars, ragVars>>
    \/ \E declared \in DeclaredCreated :
          SaveDocumentAt(declared) /\ UNCHANGED <<coreVars, rerankVars, ragVars>>

\* documents saved as time passes
SpecStamp == InitStampSpec /\ [][NextStampSpec]_vars

(***************************************************************************)
(* Claims about EmbeddingService (checked under SpecEmbed)                 *)
(***************************************************************************)
\* C1: when generateEmbeddingsBatch has returned, results has exactly one
\* entry per input text, and entry t is the vector obtained for text t, or
\* the empty vector when all retries of text t failed, whatever order the
\* concurrent requests completed in.
C1_BatchKeepsLengthAndOrder ==
    bPc = "done" =>
        /\ Len(results) = texts
        /\ \A t \in 1..texts :
              /\ ePc[t] \in {"ok", "failed"}
              /\ results[t] = IF ePc[t] = "ok" THEN got[t] ELSE <<>>

\* a returned batch of three texts whose first text exhausted its retries
\* while the other two obtained different vectors, text 3 at its first
\* attempt and text 2 only at a later one
C1_Witness ==
    /\ bPc = "done" /\ texts = 3
    /\ ePc[1] = "failed" /\ ePc[2] = "ok" /\ ePc[3] = "ok"
    /\ got[2] # got[3] /\ nreq[2] > 1 /\ nreq[3] = 1

\* C2: generateEmbedding issues at most maxRetries requests for one text; a
\* successful attempt ends it without a further request; after failed
\* attempt k it sleeps 2^(k-1) seconds only when k < maxRetries; when every
\* attempt failed it has issued exactly maxRetries requests and raises
\* EmbeddingGenerationException.
C2_RetryPolicy ==
    \A t \in TextIds :
        /\ nreq[t] <= maxRetries
        /\ \A k \in 1..Len(slept[t]) :
              k < maxRetries /\ slept[t][k] = 1000 * Pow2(k - 1)
        /\ ePc[t] = "request" => nreq[t] = Len(slept[t]) + 1
        /\ ePc[t] = "ok" => nreq[t] = Len(slept[t]) + 1 /\ raised[t] = "none"
        /\ ePc[t] = "failed" =>
              /\ nreq[t] = maxRetries
              /\ Len(slept[t]) = maxRetries - 1
              /\ raised[t] = "EmbeddingGenerationException"

\* one text failed all its attempts while another succeeded at its second
C2_Witness ==
    \E t, u \in TextIds :
        /\ ePc[t] = "failed" /\ slept[t] = <<1000, 2000>>
        /\ ePc[u] = "ok" /\ nreq[u] = 2 /\ slept[u] = <<1000>>

(***************************************************************************)
(* Claims about the vector store (checked under SpecStore)                 *)
(***************************************************************************)
ChunksOf(chs, d) == {c \in chs : c.document_id = d}

\* C3: saveChunks is all-or-nothing: when an insertion of the batch fails no
\* chunk of the batch is stored and the error reaches the caller, when it
\* succeeds the whole batch is stored, and no reachable store holds a
\* non-empty strict subset of a batch.
C3_SaveChunksAllOrNothing ==
    /\ \A d \in DocIds :
          \/ ChunksOf(chunks, d) = {}
          \/ ChunksOf(chunks, d) = Range(ChunkRows(d, batches[d]))
    /\ (last.op = "indexSave" /\ last.saveChunks = "error") =>
          last.result = "error" /\ ChunksOf(chunks, last.id) = {}
    /\ (last.op = "indexSave" /\ last.saveChunks = "ok") =>
          ChunksOf(chunks, last.id) = Range(ChunkRows(last.id, batches[last.id]))

\* a saveChunks call whose second insertion failed, after the first one had
\* been executed inside the transaction
C3_Witness ==
    /\ last.op = "indexSave" /\ last.saveChunks = "error"
    /\ last.detail = 2 /\ batches[last.id] = 2

\* C4: a successful deleteDocument(id) leaves no chunk of id for
\* getChunksByDocumentId and no embedding of such a chunk in getAllEmbeddings,
\* and the rows of every other document are unchanged.
C4_DeleteCascades ==
    [][\A id \in DocIds :
         (/\ last'.op = "delete" /\ last'.id = id /\ last'.result = "ok"
          /\ DeleteDocumentRequest(id)) =>
            /\ GetChunksByDocumentId(chunks', id) = <<>>
            /\ \A e \in GetAllEmbeddings(documents', chunks', embeddings') :
                  e.chunkId \notin {c.id : c \in ChunksOf(chunks, id)}
            /\ documents' = {d \in documents : d.id # id}
            /\ chunks' = {c \in chunks : c.document_id # id}
            /\ embeddings' = {e \in embeddings :
                                \E c \in chunks : /\ c.id = e.chunk_id
                                                  /\ c.document_id # id}]_vars

\* a document with chunks has just been deleted while another document with
\* chunks and embeddings stays stored
C4_Witness ==
    /\ last.op = "delete" /\ last.result = "ok" /\ last.detail >= 1
    /\ chunks # {} /\ embeddings # {}

\* C5: deleteDocument of an id that is not stored reports not-found and
\* leaves the three tables unchanged, also for an id that was deleted before.
C5_DeleteAbsentIsNotFound ==
    [][\A id \in DocIds :
         (/\ last'.op = "delete" /\ last'.id = id
          /\ DeleteDocumentRequest(id)
          /\ GetDocumentById(documents, id) = Null) =>
            /\ LET r == DeleteDocument(documents, chunks, embeddings, id)
               IN /\ ~r.ok
                  /\ r.documents = documents
                  /\ r.chunks = chunks
                  /\ r.embeddings = embeddings
            /\ last'.result = "notfound"
            /\ UNCHANGED <<documents, chunks, embeddings>>]_vars

\* a delete of a document that had been stored and deleted before was
\* answered not-found while other rows are stored
C5_Witness ==
    /\ last.op = "delete" /\ last.result = "notfound"
    /\ batches[last.id] > 0 /\ documents # {}

\* C6: in every reachable store every chunk's document exists and every
\* embedding's chunk exists.
C6_ReferentialIntegrity ==
    /\ \A c \in chunks : \E d \in documents : d.id = c.document_id
    /\ \A e \in embeddings : \E c \in chunks : c.id = e.chunk_id

\* an indexDocument run resumed after its document had been deleted and its
\* saveEmbedding was refused without any I/O error
C6_Witness ==
    /\ last.op = "indexEmbed" /\ last.result = "error" /\ last.detail = 0
    /\ GetDocumentById(documents, last.id) = Null

\* C7: no read interleaved with a running indexDocument returns a document
\* whose indexing run has not stored its embeddings yet.
C7_NoPartiallyIndexedVisible ==
    (last.op = "getDocumentById" /\ last.result = "found") =>
        last.id \notin Indexing

(***************************************************************************)
(* Claims about ChunkingService (checked under SpecChunk)                  *)
(***************************************************************************)
\* some paragraph of the document text is longer than maxChunkSize on its own
AtomExceedsMax ==
    \E k \in 1..Len(blocks) : Len(RawContent(<<blocks[k]>>)) > cfg.maxChunkSize

\* C8: whenever overlap < maxChunkSize, every iteration of the fixed
\* strategy's window loop and of the character-window split moves its
\* position strictly forward.
C8_WindowLoopsAdvance ==
    [][(/\ cpc \in {"fixed", "chars"}
        /\ steps' = steps + 1
        /\ cfg.overlap < cfg.maxChunkSize)
          => window'.position > window.position]_vars

\* C9: every returned chunk has at most maxChunkSize characters of content
\* unless a paragraph or sentence of the document alone exceeds
\* maxChunkSize, and every piece cut by the character-window split has at
\* most maxChunkSize characters.
C9_ChunksWithinMaxChunkSize ==
    /\ (cpc = "done" /\ result.returned /\ ~AtomExceedsMax) =>
          \A k \in 1..Len(result.chunks) :
             Len(result.chunks[k].content) <= cfg.maxChunkSize
    /\ cpc = "chars" =>
          \A k \in 1..Len(window.chunks) :
             Len(window.chunks[k].content) <= cfg.maxChunkSize

\* C10: when createChunks returns, the positions of the returned chunks,
\* read in returned order, are exactly 0, 1, ..., n-1.
C10_PositionsContiguous ==
    (cpc = "done" /\ result.returned) =>
       \A k \in 1..Len(result.chunks) : result.chunks[k].position = k - 1

\* a returned result of the recursive strategy with at least three chunks:
\* one section was split by sentences and another was taken whole
C10_Witness ==
    /\ cpc = "done" /\ result.returned
    /\ cfg.strategy = "recursive"
    /\ Len(result.chunks) >= 3
    /\ \E sec \in Range(ExtractSections(blocks)) :
          sec.level = 2 /\ Len(sec.content) > cfg.maxChunkSize
    /\ \E sec \in Range(ExtractSections(blocks)) :
          sec.level = 2 /\ Len(sec.content) <= cfg.maxChunkSize
    /\ \A k \in 1..Len(result.chunks) : result.chunks[k].position = k - 1

\* the content of a chunk without the heading prefix createChunkFromText,
\* splitTextRecursive and splitByChars put in front of it
WithoutHeadingPrefix(chunk) ==
    LET prefix == HeadingPrefix(cfg, chunk.sectionHeading)
    IN IF Len(chunk.content) >= Len(prefix)
          /\ SubSeq(chunk.content, 1, Len(prefix)) = prefix
       THEN SubSeq(chunk.content, Len(prefix) + 1, Len(chunk.content))
       ELSE chunk.content

\* C11: when createChunks returns, no part of the source longer than the
\* overlap is absent from all chunks; in particular every paragraph longer
\* than the overlap has at least one of its characters in some chunk.
C11_ChunksCoverSource ==
    (cpc = "done" /\ result.returned) =>
       \A k \in 1..Len(blocks) :
          (blocks[k].type = "paragraph" /\ Len(blocks[k].text) > cfg.overlap)
             => \E n \in 1..Len(result.chunks) :
                   Range(WithoutHeadingPrefix(result.chunks[n]))
                      \cap Range(blocks[k].text) # {}

(***************************************************************************)
(* Claims about SearchService (checked under SpecSearch)                   *)
(***************************************************************************)
\* C12: a returned search has at most topK results (the default 5 when no
\* topK is given), every score is at least minScore (the default 0.3 when
\* none is given), scores are non-increasing, and the ranks are 1, 2, ..., n
\* in that order, also when the store changed while the search was waiting.
C12_SearchResultsRanked ==
    spc = "done" =>
       /\ Len(sresults) <= (IF sopts.topK = 0 THEN 5 ELSE sopts.topK)
       /\ \A k \in 1..Len(sresults) :
             /\ sresults[k].score >=
                   (IF sopts.minScore = Null THEN 30 ELSE sopts.minScore[1])
             /\ sresults[k].rank = k
             /\ k > 1 => sresults[k - 1].score >= sresults[k].score

\* a search that raced with an indexing or delete request returned two
\* results of different score, cut from more candidates by topK and put in
\* another order than the table's
C12_Witness ==
    /\ spc = "done" /\ sraced /\ sopts.topK = 2
    /\ Len(sresults) = 2
    /\ sresults[1].score > sresults[2].score
    /\ Len(Similarities(<<1, 0>>, 30, sseen)) > 2
    /\ Similarities(<<1, 0>>, 30, sseen)[1].score = 60

\* the stored embeddings a query vector can be compared with
Comparable(queryEmbedding, allEmbeddings) ==
    SelectSeq(allEmbeddings,
              LAMBDA item : /\ Len(item.vector) # 0
                            /\ Len(item.vector) = Len(queryEmbedding))

\* C13: no result of a returned search comes from a stored embedding whose
\* vector is empty or of another dimension than the query vector, and the
\* results are the ones the search gives on the store without those
\* embeddings; their presence does not make the search fail.
C13_UnusableVectorsSkipped ==
    spc = "done" =>
       \E q \in QueryVectors :
          /\ \A k \in 1..Len(sresults) :
                \E n \in 1..Len(sseen) :
                   /\ sseen[n].chunkId = sresults[k].chunkId
                   /\ Len(sseen[n].vector) = Len(q)
          /\ sresults = SemanticSearch(q, sopts, documents, Comparable(q, sseen))

\* a returned search that found a result although the first stored
\* embeddings it read were of another dimension than the query vector
C13_Witness ==
    /\ spc = "done" /\ Len(sresults) >= 1 /\ Len(sseen) >= 3
    /\ sseen[1].vector = <<1>>
    /\ sseen[2].vector = <<1>>
    /\ Len(Comparable(<<1, 0>>, sseen)) < Len(sseen) - 1

\* C14: a search that read zero embeddings from the store returns, and
\* returns the empty result list; searchWithRAG then returns the empty
\* context string.
C14_EmptyStoreEmptyResults ==
    (spc = "done" /\ sseen = <<>>) =>
       /\ sresults = <<>>
       /\ scontext = <<>>

\* searchWithRAG returned on a store that holds a document and its chunks
\* but no embedding
C14_Witness ==
    /\ spc = "done" /\ skind = "searchWithRAG"
    /\ sseen = <<>> /\ embeddings = {}
    /\ documents # {} /\ chunks # {}

(***************************************************************************)
(* Claims about RerankerService (checked under SpecRerank)                 *)
(***************************************************************************)
\* C15: every candidate's rerankScore is decided by its own judgment reply
\* alone, whatever happened to the other requests: 0.5 when the request
\* timed out or failed, 0 when the reply text does not parse as a number,
\* and otherwise the parsed number limited to [0, 1]; and rerankResults
\* returns once every request has ended, with those scores.
C15_CandidatesScoredIndependently ==
    /\ \A k \in 1..Len(rcands) :
          rreplies[k] # Null =>
             LET reply == rreplies[k][1]
                 parsed == ParseFloat(Trim(reply.text))
             IN /\ reply.kind # "text" => rscores[k] = <<50>>
                /\ (reply.kind = "text" /\ parsed = Null) => rscores[k] = <<0>>
                /\ (reply.kind = "text" /\ parsed # Null) =>
                      rscores[k] = <<Clamp(parsed[1], 0, 100)>>
    /\ rpc = "done" =>
          \A j \in 1..Len(rout) :
             \E k \in 1..Len(rcands) :
                /\ rout[j].chunkId = rcands[k].chunkId
                /\ <<rout[j].rerankScore>> = rscores[k]

\* three candidates: the first request timed out, the second reply was
\* '1.5' and the third 'abc'; the result holds 1, 0.5 and 0 in that order
C15_Witness ==
    /\ rpc = "done" /\ Len(rcands) = 3 /\ Len(rout) = 3
    /\ rreplies[1][1].kind = "timeout"
    /\ rreplies[2][1].text = <<"1", ".", "5">>
    /\ rreplies[3][1].text = <<"a", "b", "c">>
    /\ rout[1].rerankScore = 100 /\ rout[1].chunkId = rcands[2].chunkId
    /\ rout[2].rerankScore = 50 /\ rout[2].chunkId = rcands[1].chunkId
    /\ rout[3].rerankScore = 0

\* C16: rerankResults returns min(topK, number of candidates) results; each
\* is a different input candidate with its vector score as given and a
\* rerankScore between 0 and 1; they are in non-increasing rerankScore
\* order, and no candidate left out has a higher rerankScore than one that
\* was returned.
C16_RerankTopK ==
    rpc = "done" =>
       /\ Len(rout) = Min(rtopK, Len(rcands))
       /\ \A j \in 1..Len(rout) :
             /\ \E k \in 1..Len(rcands) :
                   rout[j] = RankedResult(rcands[k], rout[j].rerankScore)
             /\ rout[j].rerankScore \in 0..100
             /\ j > 1 => rout[j - 1].rerankScore >= rout[j].rerankScore
             /\ \A h \in 1..Len(rout) :
                   h # j => rout[h].chunkId # rout[j].chunkId
       /\ \A k \in 1..Len(rcands) :
             (\A j \in 1..Len(rout) : rout[j].chunkId # rcands[k].chunkId) =>
                \A j \in 1..Len(rout) : rscores[k][1] <= rout[j].rerankScore

\* three candidates, topK 2: the candidate with the best vector score got
\* the lowest rerankScore and is the one left out
C16_Witness ==
    /\ rpc = "done" /\ Len(rcands) = 3 /\ rtopK = 2 /\ Len(rout) = 2
    /\ rout[1].chunkId = rcands[3].chunkId
    /\ rout[2].chunkId = rcands[2].chunkId
    /\ rout[1].rerankScore > rout[2].rerankScore
    /\ rout[2].rerankScore > rscores[1][1]
    /\ rout[1].score < rout[2].score

(***************************************************************************)
(* Claims about RagService (checked under SpecRag)                         *)
(***************************************************************************)
\* the number of results of the threshold search of strategy s that score
\* at least its threshold
Survivors(s) ==
    Cardinality({k \in 1..Min(thresholdTopK, Len(ghits)) :
                    ghits[k].score >= gstrat[s].threshold})

IsPrefix(a, b) == Len(a) <= Len(b) /\ SubSeq(b, 1, Len(a)) = a

\* the external calls of a filtered or reranked strategy with survivors
CallsWithSurvivors(method) ==
    IF method = "reranked" THEN <<"search", "rerank", "generate">>
    ELSE <<"search", "generate">>

\* C17: a filtered or reranked RAG strategy whose threshold search returned
\* nothing at or above the threshold has returned the canned answer with no
\* sources, having made the search call only: no rerank and no generation
\* call, and no error.  One whose search kept a result makes its calls in
\* the order search, (rerank,) generate and has made exactly one generation
\* call when it ends.
C17_ShortCircuitWithoutGeneration ==
    \A s \in 1..Len(gstrat) :
       LET st == gstrat[s]
       IN (st.method \in {"filtered", "reranked"}
             /\ st.pc # "search" /\ st.error # "embedding") =>
          IF Survivors(s) = 0
          THEN /\ st.pc = "done"
               /\ st.calls = <<"search">>
               /\ st.response.answer = "canned"
               /\ st.response.sources = <<>>
               /\ st.response.usedDocuments = 0
               /\ (Len(gstrat) = 1 => gout.status # "rejected")
          ELSE /\ IsPrefix(st.calls, CallsWithSurvivors(st.method))
               /\ st.pc \in {"done", "failed"} =>
                     st.calls = CallsWithSurvivors(st.method)
               /\ st.pc = "done" => st.response.answer = "generated"

\* compareMethods on an index whose best score is 0.65: filtered RAG at 0.7
\* returned the canned answer after its search alone, reranked RAG at 0.6
\* searched, reranked and generated
C17_Witness ==
    /\ gkind = "compareMethods" /\ gout.status = "resolved"
    /\ gstrat[2].calls = <<"search">>
    /\ gstrat[2].response.answer = "canned"
    /\ gstrat[3].calls = <<"search", "rerank", "generate">>
    /\ gstrat[3].response.answer = "generated"
    /\ Len(gstrat[3].response.sources) = 1

\* the thresholds of a resolved compareThresholds whose filtered RAG run
\* used at least 2 documents with scores averaging above 0.7
Qualifying ==
    {gstrat[s].threshold : s \in
        {k \in 1..Len(gstrat) :
            /\ gstrat[k].response.usedDocuments >= 2
            /\ Sum(gstrat[k].response.scores)
                  > 70 * Len(gstrat[k].response.scores)}}

\* C18: a compareThresholds that returned recommends the lowest of the given
\* thresholds that qualify, in whatever order they were given, and 0.7 with
\* the 'default used' reason when none qualifies.
C18_LowestQualifyingThreshold ==
    (gkind = "compareThresholds" /\ gout.status = "resolved") =>
       IF Qualifying = {}
       THEN gout.bestThreshold = 70 /\ gout.reason = "default"
       ELSE /\ gout.bestThreshold \in Qualifying
            /\ \A t \in Qualifying : gout.bestThreshold <= t
            /\ gout.reason = "documents"

\* the documents each method of a resolved compareMethods used
BasicDocs == Len(gstrat[1].response.sources)

FilteredDocs == gstrat[2].response.usedDocuments

RerankedDocs == Len(gstrat[3].response.sources)

TopRerankScore == gstrat[3].response.rerankScores[1]

TopFilteredScore == gstrat[2].response.scores[1]

\* C19 as stated: the verdict of compareMethods is 'no results' if no
\* method, basic RAG included, found a document; else 'high-confidence
\* rerank' if the top rerank score is above 0.8; else 'adequate filtered
\* result' if the top filtered score is above 0.7 and filtered RAG used at
\* least 2 documents; else 'inconclusive'.
C19_VerdictNoMethodFoundAny ==
    (gkind = "compareMethods" /\ gout.status = "resolved") =>
       gout.verdict =
          IF BasicDocs = 0 /\ FilteredDocs = 0 /\ RerankedDocs = 0
          THEN "noResults"
          ELSE IF RerankedDocs > 0 /\ TopRerankScore > 80
          THEN "rerankConfident"
          ELSE IF FilteredDocs >= 2 /\ TopFilteredScore > 70
          THEN "filteredAdequate"
          ELSE "inconclusive"

\* C19 amended: the verdict of compareMethods is 'no results' if neither
\* filtered RAG nor reranked RAG used a document, whatever basic RAG found;
\* else 'high-confidence rerank' if the top rerank score is above 0.8; else
\* 'adequate filtered result' if the top filtered score is above 0.7 and
\* filtered RAG used at least 2 documents; else 'inconclusive'.  Every
\* combination of results gets exactly one of the four.
C19_VerdictDecisionOrder ==
    (gkind = "compareMethods" /\ gout.status = "resolved") =>
       /\ gout.verdict \in {"noResults", "rerankConfident",
                            "filteredAdequate", "inconclusive"}
       /\ gout.verdict =
             IF FilteredDocs = 0 /\ RerankedDocs = 0
             THEN "noResults"
             ELSE IF RerankedDocs > 0 /\ TopRerankScore > 80
             THEN "rerankConfident"
             ELSE IF FilteredDocs >= 2 /\ TopFilteredScore > 70
             THEN "filteredAdequate"
             ELSE "inconclusive"

\* compareMethods returned the 'high-confidence rerank' verdict although
\* the filtered result was adequate too: the order of the tests decided
C19_Witness ==
    /\ gkind = "compareMethods" /\ gout.status = "resolved"
    /\ gout.verdict = "rerankConfident"
    /\ FilteredDocs >= 2 /\ TopFilteredScore > 70
    /\ BasicDocs > 0

\* C20: in compare, compareThresholds and compareMethods a generation call
\* that timed out ends only its own call: when nothing else went wrong the
\* comparison is not rejected, and still returns with the other
\* strategies' results.
C20_TimeoutAbortsOnlyItsCall ==
    (/\ gkind \in {"compare", "compareThresholds", "compareMethods"}
     /\ \E s \in 1..Len(gstrat) : gstrat[s].error = "timeout"
     /\ \A s \in 1..Len(gstrat) : gstrat[s].error \in {"none", "timeout"})
       => gout.status # "rejected"

(***************************************************************************)
(* Further claims about EmbeddingService (checked under SpecEmbed)         *)
(***************************************************************************)
\* the texts whose generateEmbedding call has started and not yet settled
Unsettled == {t \in TextIds : ePc[t] \in {"request", "sleep"}}

\* C21: during one generateEmbeddingsBatch call at most batchSize requests
\* are in flight; every text whose request is in flight or backing off
\* belongs to the group the loop is at, every text of an earlier group has
\* succeeded or exhausted its retries, and no request has been issued for a
\* text of a later group.
C21_GroupsRunOneAfterAnother ==
    /\ Cardinality({t \in TextIds : ePc[t] = "request"}) <= batchSize
    /\ \A t \in Unsettled :
          /\ bPc = "await"
          /\ i < t /\ t <= i + batchSize
    /\ \A t \in TextIds :
          /\ (t <= i /\ t <= texts) => ePc[t] \in {"ok", "failed"}
          /\ (t > i + batchSize \/ (t > i /\ bPc # "await")) => nreq[t] = 0

\* the second group is being requested after the first group's first text
\* used up its three attempts, with both backoff waits, and its second
\* text succeeded
C21_Witness ==
    /\ bPc = "await" /\ i = batchSize /\ texts > batchSize
    /\ ePc[1] = "failed" /\ Len(slept[1]) = 2 /\ nreq[1] = 3
    /\ ePc[2] = "ok"
    /\ ePc[batchSize + 1] = "request"

\* C22: when every attempt of a generateEmbedding call failed at connection
\* level, the call ends with the provider-unavailable exception
\* (OllamaConnectionException), not with the exception it ends with when
\* the attempts failed for other reasons.
C22_ConnectionFailureReportedDistinctly ==
    \A t \in TextIds :
       (/\ ePc[t] = "failed"
        /\ \A k \in 1..Len(caught[t]) : caught[t][k] = "connection")
          => raised[t] = "OllamaConnectionException"

(***************************************************************************)
(* Claims about document timestamps (checked under SpecStamp)              *)
(***************************************************************************)
\* C23: every stored document's indexed_at is at or after its created_at,
\* whatever creation date its frontmatter declares.
C23_IndexedNotBeforeCreated ==
    \A k \in 1..Len(tdocs) : tdocs[k].indexed_at >= tdocs[k].created_at

(***************************************************************************)
(* Further claims about ChunkingService (checked under SpecChunk)          *)
(***************************************************************************)
\* C24: every chunk createChunks returns, under any strategy, has
\* tokenCount = ceil(L / 4) where L is the length of the chunk's content as
\* returned, after trimming and after any heading prefix was added.
C24_TokenCountOfReturnedContent ==
    (cpc = "done" /\ result.returned) =>
       \A k \in 1..Len(result.chunks) :
          result.chunks[k].tokenCount
             = CeilDiv(Len(result.chunks[k].content), 4)

\* content begins with the heading line `## <heading>` and a blank line
BeginsWithHeading(chunk) ==
    LET line == <<"#", "#", " ">> \o chunk.sectionHeading \o <<NL, NL>>
    IN /\ Len(chunk.content) >= Len(line)
       /\ SubSeq(chunk.content, 1, Len(line)) = line

\* C25: when preserveHeadings is set, every chunk emitted for a section,
\* whether the section fits in one chunk or is split by subsection,
\* paragraph, sentence or characters, has content that begins with that
\* section's heading.
C25_SectionChunksBeginWithHeading ==
    (cfg.preserveHeadings /\ cfg.strategy \in {"recursive", "section"}) =>
       /\ (cpc = "done" /\ result.returned) =>
             \A k \in 1..Len(result.chunks) :
                Len(result.chunks[k].sectionHeading) > 0
                   => BeginsWithHeading(result.chunks[k])
       /\ cpc = "chars" =>
             \A k \in 1..Len(window.chunks) :
                Len(window.chunks[k].sectionHeading) > 0
                   => BeginsWithHeading(window.chunks[k])

\* the sections of the parsed body that have no parent
TopLevelSections ==
    SelectSeq(ExtractSections(blocks), LAMBDA sec : sec.parentId = 0)

\* C26: under the section strategy exactly one chunk is produced for each
\* top-level section whose content fits within maxChunkSize, and nested
\* subsections produce no chunks of their own: when every top-level section
\* fits, the returned chunks are the top-level sections, one each, in order.
C26_OneChunkPerTopLevelSection ==
    (/\ cfg.strategy = "section"
     /\ cpc = "done" /\ result.returned
     /\ \A k \in 1..Len(TopLevelSections) :
           Len(TopLevelSections[k].content) <= cfg.maxChunkSize) =>
       /\ Len(result.chunks) = Len(TopLevelSections)
       /\ \A k \in 1..Len(result.chunks) :
             result.chunks[k].content = Trim(TopLevelSections[k].content)

(***************************************************************************)
(* Claims about DocumentParserService (checked under SpecChunk)            *)
(***************************************************************************)
\* sectionStack after the visit of the first n headings
RECURSIVE SectionStackAfter(_)
SectionStackAfter(n) ==
    IF n = 0 THEN <<>>
    ELSE Append(PopStack(SectionStackAfter(n - 1),
                         ExtractSections(blocks)[n].level),
                ExtractSections(blocks)[n])

\* the nearest section before the n-th whose level is strictly smaller than
\* the n-th section's, 0 when there is none
NearestShallowerBefore(n) ==
    LET sections == ExtractSections(blocks)
        shallower == {j \in 1..(n - 1) : sections[j].level < sections[n].level}
    IN IF shallower = {} THEN 0
       ELSE CHOOSE j \in shallower : \A m \in shallower : m <= j

\* C27: the parser gives each section as parent the nearest preceding
\* section whose level is strictly smaller than its own, and no parent when
\* there is none; after each heading the stack of open sections has strictly
\* increasing levels from bottom to top, so a parent always precedes its
\* child and parent references form a forest.
C27_ParentIsNearestShallowerSection ==
    cpc # "ready" =>
       \A n \in 1..Len(ExtractSections(blocks)) :
          /\ ExtractSections(blocks)[n].parentId = NearestShallowerBefore(n)
          /\ ExtractSections(blocks)[n].parentId < n
          /\ \A j \in 1..(Len(SectionStackAfter(n)) - 1) :
                SectionStackAfter(n)[j].level < SectionStackAfter(n)[j + 1].level

\* headings of levels 1, 3, 2: the third heading pops the second and
\* attaches to the first
C27_Witness ==
    /\ cpc = "done"
    /\ Len(ExtractSections(blocks)) = 3
    /\ ExtractSections(blocks)[2].level > ExtractSections(blocks)[3].level
    /\ ExtractSections(blocks)[3].parentId = 1
    /\ Len(SectionStackAfter(3)) = 2

(***************************************************************************)
(* Further claims about RerankerService (checked under SpecRerank)         *)
(***************************************************************************)
\* vector scores the same candidates could have come with instead
OtherVectorScores == {10, 90}

\* what rerankResults returns for the candidates of the call when their
\* vector scores are `scores` and the judgments are the same
RerankedWithScores(scores) ==
    Slice(SortByRerankScore(
             [k \in 1..Len(rcands) |->
                 RankedResult([rcands[k] EXCEPT !.score = scores[k]],
                              rscores[k][1])]),
          rtopK)

ChunkIdsOf(items) == [k \in 1..Len(items) |-> items[k].chunkId]

\* C28: rerankResults orders candidates by rerankScore alone: the same
\* candidates in the same order with any other vector scores give the same
\* output order, and candidates of equal rerankScore appear in the output
\* in their input order.
C28_OrderIgnoresVectorScore ==
    (rpc = "done" /\ Len(rcands) > 0) =>
       /\ \A scores \in [1..Len(rcands) -> OtherVectorScores] :
             ChunkIdsOf(RerankedWithScores(scores)) = ChunkIdsOf(rout)
       /\ \A j, k \in 1..Len(rout) :
             (j < k /\ rout[j].rerankScore = rout[k].rerankScore)
                => rout[j].rank < rout[k].rank

\* three candidates were reranked, two of them with the same rerankScore
\* and a third with a higher one that came later in the input
C28_Witness ==
    /\ rpc = "done" /\ Len(rcands) = 3 /\ Len(rout) = 3
    /\ rout[1].rank = 3
    /\ rout[2].rerankScore = rout[3].rerankScore
    /\ rout[2].rank = 1 /\ rout[3].rank = 2

(***************************************************************************)
(* Further claims about the vector store (checked under SpecStore)         *)
(***************************************************************************)
StoredFilepaths == {r.filepath : r \in documents}

\* C29: at most one stored document exists per filepath: an indexDocument
\* request whose saveDocument runs while its filepath is already stored,
\* also when the earlier request for it is still generating embeddings,
\* fails, and the failing request leaves documents, chunks and embeddings
\* unchanged.
C29_OneDocumentPerFilepath ==
    /\ [](\A r1, r2 \in documents : r1.filepath = r2.filepath => r1.id = r2.id)
    /\ [][nextId' = nextId + 1 =>
            /\ \A row \in documents' \ documents :
                  row.filepath \notin StoredFilepaths
            /\ documents' = documents => last'.result = "error"
            /\ (last'.result = "error" /\ last'.saveChunks = "notcalled") =>
                  UNCHANGED <<documents, chunks, embeddings>>]_vars

\* saveDocument of a second request failed on the UNIQUE constraint (no I/O
\* error was reported) while the first request for that filepath is still
\* generating embeddings
C29_Witness ==
    /\ last.op = "indexSave" /\ last.result = "error"
    /\ last.saveChunks = "notcalled" /\ last.detail = 0
    /\ Cardinality(documents) = 1
    /\ \E p \in Procs :
          ipc[p] = "embedding" /\ \E r \in documents : r.id = idoc[p]

\* C30: indexDocument is all-or-nothing with respect to the store: whenever
\* it returns an error (saveDocument, saveChunks or saveEmbedding failed, or
\* the document was deleted while its embeddings were generated), the store
\* holds no document, chunk or embedding created by that request.
C30_IndexDocumentAllOrNothing ==
    (last.op \in {"indexSave", "indexEmbed"} /\ last.result = "error") =>
       /\ \A r \in documents : r.id # last.id
       /\ \A r \in chunks : r.document_id # last.id
       /\ \A r \in embeddings : r.chunk_id[1] # last.id
====
